---- MODULE Spec2Model ----
(***************************************************************************)
(* A model of the spreadsheet-XML extraction engine of xml_readers:        *)
(* the reference codec, shared-string resolution, merged-range expansion,  *)
(* the sheet streamer and the sequential and concurrent orchestrators.     *)
(*                                                                         *)
(* Text is modelled as a sequence of one-character strings, so that the    *)
(* conversions (strconv.Atoi, fmt.Sprintf("%d"), the base-26 column codec)  *)
(* are computed character by character as the code computes them.          *)
(***************************************************************************)
EXTENDS Integers, Sequences, FiniteSets, TLC

VARIABLES
    call,           \* pure-function harness: the function applied and its inputs
    ret,            \* pure-function harness: what the function returned
    zipFiles,       \* the container: member name -> token stream (absent = no member)
    workbook,       \* the sheet catalog: sequence of [Name, ID]
    sharedStrings,  \* the shared-string table (sharedStrings.Items)
    data,           \* the aggregate []CellData of main: the elements data[0:len(data)]
    heap,           \* the backing arrays made by append, and the one data points to
    wg,             \* the sync.WaitGroup counter
    mainPc,         \* position of main
    sheetIdx,       \* index of the next catalog entry the launch loop handles
    task,           \* per-sheet task state (goroutine or loop iteration)
    failures,       \* the "Failed to ..." lines printed, as a sequence of sheet names
    encoded         \* what was handed to the encoder (writeCSV/JSON/Parquet)

vars == <<call, ret, zipFiles, workbook, sharedStrings, data, heap, wg, mainPc,
          sheetIdx, task, failures, encoded>>

pureVars == <<call, ret>>
progVars == <<zipFiles, workbook, sharedStrings, data, heap, wg, mainPc,
              sheetIdx, task, failures, encoded>>

-----------------------------------------------------------------------------
(* Text and integers                                                        *)

Letters == <<"A","B","C","D","E","F","G","H","I","J","K","L","M",
             "N","O","P","Q","R","S","T","U","V","W","X","Y","Z">>

DigitChars == <<"0","1","2","3","4","5","6","7","8","9">>

IsUpper(ch) == \E i \in 1..26 : Letters[i] = ch

\* ref[i] - 'A' + 1
LetterValue(ch) == CHOOSE i \in 1..26 : Letters[i] = ch

IsDigit(ch) == \E i \in 1..10 : DigitChars[i] = ch

DigitValue(ch) == (CHOOSE i \in 1..10 : DigitChars[i] = ch) - 1

\* int32(i) of an int i.  Every integer the checker can represent already
\* lies in [-2^31, 2^31 - 1], where the conversion changes nothing; the texts
\* handed to Atoi are kept to at most nine digits so that i is representable.
ToInt32(n) == n

\* col*26 + k in int32 arithmetic, wrapping modulo 2^32.  The product is formed
\* on the two 16-bit halves of col so that no intermediate value leaves the
\* 32-bit range.
MulAdd26(col, k) ==
    LET lo  == col % 65536
        hi  == (col \div 65536) % 65536
        p   == lo * 26 + k
        lo2 == p % 65536
        hi2 == (hi * 26 + (p \div 65536)) % 65536
    IN  IF hi2 >= 32768 THEN (hi2 - 65536) * 65536 + lo2
        ELSE hi2 * 65536 + lo2

\* Go's integer division and remainder truncate toward zero.
GoDiv(a, b) == IF a >= 0 THEN a \div b ELSE -((-a) \div b)
GoMod(a, b) == a - b * GoDiv(a, b)

RECURSIVE DigitsValue(_, _)
\* The value of a run of decimal digits, accumulated left to right.
DigitsValue(s, acc) ==
    IF s = <<>> THEN acc
    ELSE DigitsValue(Tail(s), acc * 10 + DigitValue(Head(s)))

AllDigits(s) == \A i \in 1..Len(s) : IsDigit(s[i])

\* strconv.Atoi: an optional sign followed by at least one decimal digit and
\* nothing else; on a syntax error the value returned is 0.  (Texts of the
\* model are far shorter than the 19 digits at which Atoi reports a range
\* error.)
Atoi(s) ==
    LET signed == s # <<>> /\ Head(s) \in {"+", "-"}
        body   == IF signed THEN Tail(s) ELSE s
    IN  IF body = <<>> \/ ~AllDigits(body)
        THEN [val |-> 0, ok |-> FALSE]
        ELSE [val |-> IF signed /\ Head(s) = "-"
                      THEN -DigitsValue(body, 0)
                      ELSE DigitsValue(body, 0),
              ok  |-> TRUE]

\* Atoi32 of the concurrent revisions: int32(i), err.
Atoi32(s) == [val |-> ToInt32(Atoi(s).val), ok |-> Atoi(s).ok]

RECURSIVE NatDigits(_)
NatDigits(n) ==
    IF n < 10 THEN <<DigitChars[n + 1]>>
    ELSE NatDigits(n \div 10) \o <<DigitChars[(n % 10) + 1]>>

\* fmt.Sprintf("%d", n)
FormatInt(n) == IF n < 0 THEN <<"-">> \o NatDigits(-n) ELSE NatDigits(n)

-----------------------------------------------------------------------------
(* Reference codec                                                          *)

RECURSIVE parseCellReferenceFrom(_, _)
\* The loop of parseCellReference from position i on, with col accumulated.
parseCellReferenceFrom(ref, col) ==
    IF ref = <<>> THEN [col |-> col, row |-> 0]
    ELSE IF IsUpper(Head(ref))
         THEN parseCellReferenceFrom(Tail(ref),
                                     MulAdd26(col, LetterValue(Head(ref))))
         ELSE [col |-> col, row |-> ToInt32(Atoi(ref).val)]

\* A parser that gives (0, 0) unless it found both a column and a row.
parseCellReferenceAllOrNothing(ref) ==
    LET p == parseCellReferenceFrom(ref, 0)
    IN  IF p.col = 0 \/ p.row = 0 THEN [col |-> 0, row |-> 0] ELSE p

parseCellReference(ref) == parseCellReferenceFrom(ref, 0)

RECURSIVE columnLetters(_, _)
\* for col > 0 { colRef = string('A'+(col-1)%26) + colRef; col = (col-1)/26 }
columnLetters(col, colRef) ==
    IF col > 0
    THEN columnLetters(GoDiv(col - 1, 26),
                       <<Letters[GoMod(col - 1, 26) + 1]>> \o colRef)
    ELSE colRef

RECURSIVE columnLettersZeroDigit(_, _)
\* The ordinary base-26 reduction, col % 26 and col / 26, which has a zero digit.
columnLettersZeroDigit(col, colRef) ==
    IF col > 0
    THEN columnLettersZeroDigit(GoDiv(col, 26),
                                <<Letters[GoMod(col, 26) + 1]>> \o colRef)
    ELSE colRef

cellReferenceZeroDigit(col, row) ==
    columnLettersZeroDigit(col, <<>>) \o FormatInt(row)

cellReferenceFromCoordinates(col, row) ==
    columnLetters(col, <<>>) \o FormatInt(row)

-----------------------------------------------------------------------------
(* Shared-string resolution.  A resolution either returns a text or panics  *)
(* (an index expression out of range is a run-time panic in Go).            *)

Returned(text) == [panic |-> FALSE, value |-> text]
Panicked == [panic |-> TRUE, value |-> <<>>]

\* sharedStrings.Items[idx], Items being 0-based in the code and 1-based here.
ItemAt(items, idx) ==
    IF idx >= 0 /\ idx < Len(items) THEN Returned(items[idx + 1]) ELSE Panicked

\* A lookup that treats index 0 as "no index".
getCellValueSkipsZero(cell, items) ==
    IF cell.T = <<"s">> /\ Atoi(cell.V).val > 0 /\ Atoi(cell.V).val < Len(items)
    THEN ItemAt(items, Atoi(cell.V).val)
    ELSE Returned(cell.V)

\* getCellValue of cell_value.go: the conversion error is discarded and only
\* the upper bound is tested.
getCellValue(cell, items) ==
    IF cell.T = <<"s">> /\ Atoi(cell.V).val < Len(items)
    THEN ItemAt(items, Atoi(cell.V).val)
    ELSE Returned(cell.V)

\* getCellValue of the concurrent revision: err == nil && idx < len(Items).
getCellValueChecked(cell, items) ==
    IF cell.T = <<"s">> /\ Atoi(cell.V).ok /\ Atoi(cell.V).val < Len(items)
    THEN ItemAt(items, Atoi(cell.V).val)
    ELSE Returned(cell.V)

\* The value resolution written inline in ReadSheetData of xlsx_reader.go:
\* a shared-string cell that is not resolved keeps the zero value "".
cellValueInline(cell, items) ==
    IF cell.T = <<"s">>
    THEN IF Atoi(cell.V).ok /\ Atoi(cell.V).val < Len(items)
         THEN ItemAt(items, Atoi(cell.V).val)
         ELSE Returned(<<>>)
    ELSE Returned(cell.V)

-----------------------------------------------------------------------------
(* Merged ranges                                                            *)

RECURSIVE SplitFrom(_, _, _)
\* strings.Split(s, sep) for a one-character separator: cur is the part being
\* read.
SplitFrom(s, sep, cur) ==
    IF s = <<>> THEN <<cur>>
    ELSE IF Head(s) = sep
         THEN <<cur>> \o SplitFrom(Tail(s), sep, <<>>)
         ELSE SplitFrom(Tail(s), sep, Append(cur, Head(s)))

Split(s, sep) == SplitFrom(s, sep, <<>>)

\* parseMergedCellRange returns startCol, startRow, endCol, endRow; the caller
\* stores them in a MergedCell.
parseMergedCellRange(ref) ==
    LET parts == Split(ref, ":")
    IN  IF Len(parts) = 2
        THEN [StartColumn |-> parseCellReference(parts[1]).col,
              StartRow    |-> parseCellReference(parts[1]).row,
              EndColumn   |-> parseCellReference(parts[2]).col,
              EndRow      |-> parseCellReference(parts[2]).row]
        ELSE [StartColumn |-> 0, StartRow |-> 0, EndColumn |-> 0, EndRow |-> 0]

\* The loop of ReadMergedCells over the decoded mergeCell refs.
MergedCellsOf(refs) == [i \in 1..Len(refs) |-> parseMergedCellRange(refs[i])]

\* fmt.Sprintf("%s:%s", startCell, endCell)
MergedRangeLabel(mc) ==
    cellReferenceFromCoordinates(mc.StartColumn, mc.StartRow) \o <<":">>
        \o cellReferenceFromCoordinates(mc.EndColumn, mc.EndRow)

\* The keys written by the two nested loops, both bounds inclusive.
MergedKeys(mc) ==
    {cellReferenceFromCoordinates(col, row) :
        col \in mc.StartColumn..mc.EndColumn, row \in mc.StartRow..mc.EndRow}

\* The nested loops with an exclusive end bound.
MergedKeysExclusive(mc) ==
    {cellReferenceFromCoordinates(col, row) :
        col \in mc.StartColumn..(mc.EndColumn - 1),
        row \in mc.StartRow..(mc.EndRow - 1)}

\* mergedMap[cellRef] = mergedRange for every key of one range: a later
\* assignment to a key replaces the earlier one.
PutRange(mergedMap, keys, label) ==
    [k \in (DOMAIN mergedMap) \cup keys |->
        IF k \in keys THEN label ELSE mergedMap[k]]

EmptyMap == [k \in {} |-> <<>>]

RECURSIVE ExpandFrom(_, _, _)
ExpandFrom(mergedCells, i, mergedMap) ==
    IF i > Len(mergedCells) THEN mergedMap
    ELSE ExpandFrom(mergedCells, i + 1,
                    PutRange(mergedMap, MergedKeys(mergedCells[i]),
                             MergedRangeLabel(mergedCells[i])))

RECURSIVE ExpandExclusiveFrom(_, _, _)
ExpandExclusiveFrom(mergedCells, i, mergedMap) ==
    IF i > Len(mergedCells) THEN mergedMap
    ELSE ExpandExclusiveFrom(mergedCells, i + 1,
                    PutRange(mergedMap, MergedKeysExclusive(mergedCells[i]),
                             MergedRangeLabel(mergedCells[i])))

PreAllocateMergedCellsExclusive(mergedCells) ==
    ExpandExclusiveFrom(mergedCells, 1, EmptyMap)

\* The map built from the merged ranges (PreAllocateMergedCells, and the same
\* loop written inline in main).
PreAllocateMergedCells(mergedCells) == ExpandFrom(mergedCells, 1, EmptyMap)

\* mergedMap[cellReferenceFromCoordinates(col, row)], as main looks a record up.
HasEntry(mergedMap, col, row) ==
    cellReferenceFromCoordinates(col, row) \in DOMAIN mergedMap

EntryAt(mergedMap, col, row) == mergedMap[cellReferenceFromCoordinates(col, row)]

-----------------------------------------------------------------------------
(* Sheet streamer.  A sheet member is a sequence of XML tokens:              *)
(*   [k |-> "row", hasR, r]         <row r="..."> (hasR: the attribute exists) *)
(*   [k |-> "endrow"]               </row>                                   *)
(*   [k |-> "c", hasR, R, hasT, T]  <c r="..." t="...">                      *)
(*   [k |-> "v"], [k |-> "chars", text], [k |-> "endv"]   <v>text</v>        *)
(*   [k |-> "endc"]                 </c>                                     *)
(*   [k |-> "other"]                any other start or end element           *)
(*   [k |-> "syntaxError"]          invalid XML: every read from here fails  *)
(*   [k |-> "unexpectedEOF"]        the bytes stop with elements still open  *)
(* and the end of the sequence is the end of a complete document (io.EOF).   *)

Failed == [err |-> TRUE, panic |-> FALSE, cellData |-> <<>>]
Crashed == [err |-> FALSE, panic |-> TRUE, cellData |-> <<>>]
Read(cellData) == [err |-> FALSE, panic |-> FALSE, cellData |-> cellData]

IsBreak(tok) == tok.k \in {"syntaxError", "unexpectedEOF"}

RECURSIVE DecodeFrom(_, _, _, _)
\* decoder.DecodeElement(&cell, &se) from token j on: reads up to the </c>
\* that closes the element, keeping the character data of <v> in cell.V; any
\* failure of the token stream before that is returned as an error.
DecodeFrom(tokens, j, inV, cell) ==
    IF j > Len(tokens) \/ IsBreak(tokens[j])
    THEN [ok |-> FALSE, cell |-> cell, next |-> j]
    ELSE IF tokens[j].k = "endc" THEN [ok |-> TRUE, cell |-> cell, next |-> j + 1]
    ELSE IF tokens[j].k = "v" THEN DecodeFrom(tokens, j + 1, TRUE, cell)
    ELSE IF tokens[j].k = "endv" THEN DecodeFrom(tokens, j + 1, FALSE, cell)
    ELSE IF tokens[j].k = "chars" /\ inV
         THEN DecodeFrom(tokens, j + 1, inV, [cell EXCEPT !.V = tokens[j].text])
    ELSE DecodeFrom(tokens, j + 1, inV, cell)

\* The Cell decoded from the <c> start element at position i.
DecodeElement(tokens, i) ==
    DecodeFrom(tokens, i + 1, FALSE,
               [R |-> IF tokens[i].hasR THEN tokens[i].R ELSE <<>>,
                T |-> IF tokens[i].hasT THEN tokens[i].T ELSE <<>>,
                V |-> <<>>])

\* A record as the streamer appends it: the sheet name is left blank.
CellRecord(row, column, value) ==
    [SheetName |-> <<>>, RowNumber |-> row, ColumnNumber |-> column,
     SheetValue |-> value, Merged |-> FALSE, MergedRange |-> <<>>]

\* The row number of a record taken from the cell's own reference.
RecordRowFromReference(currentRow, cell) == parseCellReference(cell.R).row

\* RowNumber: currentRow
RecordRow(currentRow, cell) == currentRow

RECURSIVE ReadSheetTokens(_, _, _, _, _)
\* The token loop of ReadSheetData in xlsx_reader.go.
ReadSheetTokens(tokens, items, i, currentRow, cellData) ==
    IF i > Len(tokens) THEN Read(cellData)
    ELSE IF IsBreak(tokens[i]) THEN Failed
    ELSE IF tokens[i].k = "row"
         THEN ReadSheetTokens(tokens, items, i + 1,
                  IF tokens[i].hasR /\ Atoi(tokens[i].r).ok
                  THEN ToInt32(Atoi(tokens[i].r).val) ELSE currentRow,
                  cellData)
    ELSE IF tokens[i].k = "c"
         THEN LET d     == DecodeElement(tokens, i)
                  value == cellValueInline(d.cell, items)
              IN  IF ~d.ok THEN Failed
                  ELSE IF value.panic THEN Crashed
                  ELSE ReadSheetTokens(tokens, items, d.next, currentRow,
                           Append(cellData,
                                  CellRecord(RecordRow(currentRow, d.cell),
                                             parseCellReference(d.cell.R).col,
                                             value.value)))
    ELSE IF tokens[i].k = "endrow"
         THEN ReadSheetTokens(tokens, items, i + 1, 0, cellData)
    ELSE ReadSheetTokens(tokens, items, i + 1, currentRow, cellData)

\* ReadSheetData of xlsx_reader.go on an opened member.
ReadSheetData(tokens, items) == ReadSheetTokens(tokens, items, 1, 0, <<>>)

RECURSIVE ReadSheetTokensConc(_, _, _, _, _)
\* The token loop of ReadSheetData in the concurrent revision: the error of
\* DecodeElement is discarded (the next Token then reports the same failure),
\* the row number is Atoi32 with its error discarded, and nothing is reset at
\* a row end.
ReadSheetTokensConc(tokens, items, i, currentRow, cellData) ==
    IF i > Len(tokens) THEN Read(cellData)
    ELSE IF IsBreak(tokens[i]) THEN Failed
    ELSE IF tokens[i].k = "row"
         THEN ReadSheetTokensConc(tokens, items, i + 1,
                  IF tokens[i].hasR THEN Atoi32(tokens[i].r).val ELSE currentRow,
                  cellData)
    ELSE IF tokens[i].k = "c"
         THEN LET d     == DecodeElement(tokens, i)
                  value == getCellValueChecked(d.cell, items)
              IN  IF value.panic THEN Crashed
                  ELSE IF ~d.ok THEN Failed
                  ELSE ReadSheetTokensConc(tokens, items, d.next, currentRow,
                           Append(cellData,
                                  CellRecord(currentRow,
                                             parseCellReference(d.cell.R).col,
                                             value.value)))
    ELSE ReadSheetTokensConc(tokens, items, i + 1, currentRow, cellData)

\* ReadSheetData of the concurrent revision on an opened member.
ReadSheetDataConc(tokens, items) == ReadSheetTokensConc(tokens, items, 1, 0, <<>>)

RECURSIVE ReadSheetTokensRaw(_, _, _, _, _)
\* The RawToken loop of ReadSheetData in cell_value.go.  st holds currentRow,
\* currentCol, currentValue and cell.T, which live across cells.  RawToken
\* reports the end of the bytes as io.EOF even with elements open.
ReadSheetTokensRaw(tokens, items, i, st, cellData) ==
    IF i > Len(tokens) \/ tokens[i].k = "unexpectedEOF" THEN Read(cellData)
    ELSE IF tokens[i].k = "syntaxError" THEN Failed
    ELSE IF tokens[i].k = "row"
         THEN ReadSheetTokensRaw(tokens, items, i + 1,
                  IF tokens[i].hasR
                  THEN [st EXCEPT !.currentRow = ToInt32(Atoi(tokens[i].r).val)]
                  ELSE st,
                  cellData)
    ELSE IF tokens[i].k = "c"
         THEN ReadSheetTokensRaw(tokens, items, i + 1,
                  [st EXCEPT
                     !.currentCol = IF tokens[i].hasR
                                    THEN parseCellReference(tokens[i].R).col
                                    ELSE @,
                     !.T = IF tokens[i].hasT THEN tokens[i].T ELSE <<>>],
                  cellData)
    ELSE IF tokens[i].k = "v"
         THEN IF i + 1 > Len(tokens) \/ IsBreak(tokens[i + 1]) THEN Failed
              ELSE ReadSheetTokensRaw(tokens, items, i + 2,
                       IF tokens[i + 1].k = "chars"
                       THEN [st EXCEPT !.currentValue = tokens[i + 1].text]
                       ELSE st,
                       cellData)
    ELSE IF tokens[i].k = "endc"
         THEN LET value == getCellValue([R |-> <<>>, T |-> st.T, V |-> st.currentValue],
                                        items)
              IN  IF value.panic THEN Crashed
                  ELSE ReadSheetTokensRaw(tokens, items, i + 1, st,
                           Append(cellData,
                                  CellRecord(st.currentRow, st.currentCol, value.value)))
    ELSE ReadSheetTokensRaw(tokens, items, i + 1, st, cellData)

\* ReadSheetData of cell_value.go on an opened member.
ReadSheetDataRaw(tokens, items) ==
    ReadSheetTokensRaw(tokens, items, 1,
        [currentRow |-> 0, currentCol |-> 0, currentValue |-> <<>>, T |-> <<>>],
        <<>>)

-----------------------------------------------------------------------------
(* Slices.  data is a slice header (pointer, length, capacity) over a        *)
(* backing array.  append writes into the backing array when the capacity    *)
(* suffices and otherwise copies the elements into a new, larger array; the  *)
(* caller then stores the returned header into data.  heap.arrays are the    *)
(* backing arrays made so far, each as long as its capacity; heap.cur is the *)
(* one data points to, and the variable data holds its first len(data)       *)
(* elements.  A header is read and written as a unit.                        *)

\* var data []CellData: the nil slice, of capacity 0.
NilHeap == [arrays |-> << <<>> >>, cur |-> 1]

\* The zero value of CellData, which fills the unused capacity of a new array.
ZeroRecord == CellRecord(0, 0, <<>>)

\* The capacity append chooses for a slice of capacity oldCap that has to hold
\* newLen elements: twice the old one, or newLen when that is more.
GrowCap(oldCap, newLen) == IF newLen > 2 * oldCap THEN newLen ELSE 2 * oldCap

\* append(s, recs...) for the slice s = [arr, len]: the arrays afterwards and
\* the header returned.
AppendInto(arrays, s, recs) ==
    LET newLen == s.len + Len(recs)
        old    == arrays[s.arr]
    IN  IF newLen <= Len(old)
        THEN [arrays |-> [arrays EXCEPT ![s.arr] =
                             [n \in 1..Len(old) |->
                                 IF n > s.len /\ n <= newLen
                                 THEN recs[n - s.len] ELSE old[n]]],
              arr |-> s.arr, len |-> newLen]
        ELSE [arrays |-> Append(arrays,
                             [n \in 1..GrowCap(Len(old), newLen) |->
                                 IF n <= s.len THEN old[n]
                                 ELSE IF n <= newLen THEN recs[n - s.len]
                                 ELSE ZeroRecord]),
              arr |-> Len(arrays) + 1, len |-> newLen]

RECURSIVE AppendEach(_, _, _)
\* for _, rec := range recs { s = append(s, rec) } by one goroutine alone.
AppendEach(arrays, s, recs) ==
    IF recs = <<>> THEN [arrays |-> arrays, arr |-> s.arr, len |-> s.len]
    ELSE LET r == AppendInto(arrays, s, << Head(recs) >>)
         IN  AppendEach(r.arrays, [arr |-> r.arr, len |-> r.len], Tail(recs))

\* The elements s[0:len] of the slice s = [arr, len].
Elements(arrays, s) == SubSeq(arrays[s.arr], 1, s.len)

\* The header main or a goroutine reads from data.
DataHeader == [arr |-> heap.cur, len |-> Len(data)]

-----------------------------------------------------------------------------
(* Harness for the pure functions: Init draws the inputs, one action applies *)
(* each function.  The program variables stay at rest meanwhile.             *)

ProgAtRest ==
    /\ zipFiles = <<>>
    /\ workbook = <<>>
    /\ sharedStrings = <<>>
    /\ data = <<>>
    /\ heap = NilHeap
    /\ wg = 0
    /\ mainPc = "rest"
    /\ sheetIdx = 0
    /\ task = <<>>
    /\ failures = <<>>
    /\ encoded = <<>>

\* The worksheet column ceiling and row ceiling of the reference codec's domain.
MaxColumn == 16384
MaxRow == 1048576
\* How many rows next to each end of the row range are enumerated.
RowSpan == 12

EdgeColumns == {1, 2, 25, 26, 27, 52, 53, 676, 677, 702, 703, 704, MaxColumn}

EdgeRows ==
    (1..RowSpan) \cup ((MaxRow - RowSpan)..MaxRow)
    \cup {99, 100, 101, 999, 1000, 9999, 10000, 99999, 100000, 999999, 1000000}

\* Every column with the two extreme rows, and the edge columns with every
\* enumerated row.
CodecInputs ==
    ((1..MaxColumn) \X {1, MaxRow}) \cup (EdgeColumns \X EdgeRows)

InitCodec ==
    /\ \E in \in CodecInputs : call = [fn |-> "roundTrip", col |-> in[1], row |-> in[2]]
    /\ ret = [pc |-> "start"]
    /\ ProgAtRest

\* encodeReference: cellReferenceFromCoordinates(c, r)
Encode ==
    /\ call.fn = "roundTrip"
    /\ ret.pc = "start"
    /\ ret' = [pc |-> "encoded",
               ref |-> cellReferenceFromCoordinates(call.col, call.row)]
    /\ UNCHANGED <<call, progVars>>

\* decodeReference: parseCellReference of the encoded text
Decode ==
    /\ call.fn = "roundTrip"
    /\ ret.pc = "encoded"
    /\ ret' = [pc |-> "decoded", ref |-> ret.ref,
               col |-> parseCellReference(ret.ref).col,
               row |-> parseCellReference(ret.ref).row]
    /\ UNCHANGED <<call, progVars>>

NextCodec == Encode \/ Decode

SpecCodec == InitCodec /\ [][NextCodec]_vars

\* C6: for every column c in [1, 16384] and row r in [1, 2^20],
\* parseCellReference(cellReferenceFromCoordinates(c, r)) returns exactly (c, r).
C6_RoundTrip ==
    (call.fn = "roundTrip" /\ ret.pc = "decoded")
        => (ret.col = call.col /\ ret.row = call.row)

\* The round trip of the last column and last row of the domain: XFD1048576.
C6_Witness ==
    /\ call.fn = "roundTrip" /\ ret.pc = "decoded"
    /\ call.col = 16384 /\ call.row = 1048576
    /\ ret.ref = <<"X","F","D","1","0","4","8","5","7","6">>

-----------------------------------------------------------------------------
(* Shared-string resolution harness                                         *)

\* The longest shared-string table enumerated.
MaxTable == 2

TableEntries == {<<"H","i">>, <<"4","2">>}

RECURSIVE SeqsUpTo(_, _)
\* All sequences over S of length at most n.
SeqsUpTo(S, n) ==
    IF n = 0 THEN {<<>>}
    ELSE LET shorter == SeqsUpTo(S, n - 1)
         IN  shorter \cup {Append(q, x) : q \in {t \in shorter : Len(t) = n - 1}, x \in S}

TableInputs == SeqsUpTo(TableEntries, MaxTable)

TypeInputs == {<<"s">>, <<"n">>, <<>>}

ContentInputs ==
    {<<>>, <<"0">>, <<"1">>, <<"2">>, <<"3">>, <<"4">>, <<"-","1">>, <<"-","2">>,
     <<"4","2">>, <<"+","1">>, <<"x">>, <<"1","x">>}

ResolverNames == {"getCellValue", "getCellValueChecked", "cellValueInline"}

InitValue ==
    /\ \E fn \in ResolverNames, t \in TypeInputs, v \in ContentInputs, items \in TableInputs :
          call = [fn |-> fn, cell |-> [R |-> <<"A","1">>, T |-> t, V |-> v],
                  items |-> items]
    /\ ret = [pc |-> "start"]
    /\ ProgAtRest

ResolveGetCellValue ==
    /\ call.fn = "getCellValue"
    /\ ret.pc = "start"
    /\ ret' = [pc |-> "resolved", out |-> getCellValue(call.cell, call.items)]
    /\ UNCHANGED <<call, progVars>>

ResolveGetCellValueChecked ==
    /\ call.fn = "getCellValueChecked"
    /\ ret.pc = "start"
    /\ ret' = [pc |-> "resolved", out |-> getCellValueChecked(call.cell, call.items)]
    /\ UNCHANGED <<call, progVars>>

ResolveInline ==
    /\ call.fn = "cellValueInline"
    /\ ret.pc = "start"
    /\ ret' = [pc |-> "resolved", out |-> cellValueInline(call.cell, call.items)]
    /\ UNCHANGED <<call, progVars>>

NextValue == ResolveGetCellValue \/ ResolveGetCellValueChecked \/ ResolveInline

SpecValue == InitValue /\ [][NextValue]_vars

Resolved == call.fn \in ResolverNames /\ ret.pc = "resolved"

\* The cell has the shared-string marker and its content is the decimal text of i.
SharedIndexCell(i) == call.cell.T = <<"s">> /\ call.cell.V = FormatInt(i)

\* C7: for a cell whose type attribute is "s" and whose content is an index i
\* with 0 <= i < table length, the resolved value is the table entry at index i.
C7_InRangeIndex ==
    Resolved =>
        \A i \in 0..(Len(call.items) - 1) :
            SharedIndexCell(i) =>
                (~ret.out.panic /\ ret.out.value = call.items[i + 1])

\* Index 1 of the table ["42", "Hi"] resolved to "Hi" by getCellValue.
C7_Witness ==
    /\ Resolved /\ call.fn = "getCellValue"
    /\ call.items = << <<"4","2">>, <<"H","i">> >>
    /\ SharedIndexCell(1)
    /\ ret.out = Returned(<<"H","i">>)

\* C8: for a cell with the shared-string marker and any integer index outside
\* [0, table length), including a negative index and any index against an
\* empty table, value resolution yields an empty value and never panics.
C8_OutOfRangeIndex ==
    Resolved =>
        \A i \in (-2)..(MaxTable + 2) :
            (SharedIndexCell(i) /\ (i < 0 \/ i >= Len(call.items))) =>
                (~ret.out.panic /\ ret.out.value = <<>>)

-----------------------------------------------------------------------------
(* Merged-range harness                                                     *)

\* The most merge declarations of one sheet enumerated.
MaxMergeDecls == 2
\* Coordinates 0..MaxProbe in both axes are probed for entries.
MaxProbe == 5

\* Merge declarations as they stand in the sheet, each with the rectangle it
\* declares written out by hand (c1, r1)-(c2, r2); wf: the ref has the form
\* start:end.
DeclPool ==
    { [ref |-> <<"A","1",":","A","1">>, wf |-> TRUE, c1 |-> 1, r1 |-> 1, c2 |-> 1, r2 |-> 1],
      [ref |-> <<"B","2",":","C","3">>, wf |-> TRUE, c1 |-> 2, r1 |-> 2, c2 |-> 3, r2 |-> 3],
      [ref |-> <<"C","3",":","D","4">>, wf |-> TRUE, c1 |-> 3, r1 |-> 3, c2 |-> 4, r2 |-> 4],
      [ref |-> <<"A","1",":","B","1">>, wf |-> TRUE, c1 |-> 1, r1 |-> 1, c2 |-> 2, r2 |-> 1],
      [ref |-> <<"C","3",":","B","2">>, wf |-> TRUE, c1 |-> 3, r1 |-> 3, c2 |-> 2, r2 |-> 2],
      [ref |-> <<"A","1">>,             wf |-> FALSE, c1 |-> 1, r1 |-> 1, c2 |-> 1, r2 |-> 1] }

DeclInputs == SeqsUpTo(DeclPool, MaxMergeDecls)

InitMerge ==
    /\ \E decls \in DeclInputs : call = [fn |-> "mergedMap", decls |-> decls]
    /\ ret = [pc |-> "start"]
    /\ ProgAtRest

\* ReadMergedCells: every declared ref parsed into a MergedCell.
ParseRanges ==
    /\ call.fn = "mergedMap"
    /\ ret.pc = "start"
    /\ ret' = [pc |-> "parsed",
               mergedCells |-> MergedCellsOf([i \in 1..Len(call.decls) |-> call.decls[i].ref])]
    /\ UNCHANGED <<call, progVars>>

\* The expansion of the merged ranges into the coordinate-to-label map.
Expand ==
    /\ call.fn = "mergedMap"
    /\ ret.pc = "parsed"
    /\ ret' = [pc |-> "expanded", mergedCells |-> ret.mergedCells,
               mergedMap |-> PreAllocateMergedCells(ret.mergedCells)]
    /\ UNCHANGED <<call, progVars>>

NextMerge == ParseRanges \/ Expand

SpecMerge == InitMerge /\ [][NextMerge]_vars

Expanded == call.fn = "mergedMap" /\ ret.pc = "expanded"

AllWellFormed == \A i \in 1..Len(call.decls) : call.decls[i].wf

Inside(d, c, r) == d.c1 <= c /\ c <= d.c2 /\ d.r1 <= r /\ r <= d.r2

Probes == (0..MaxProbe) \X (0..MaxProbe)

\* No entry for any probed coordinate outside every declared rectangle.
NoEntryOutside ==
    \A p \in Probes :
        (\A i \in 1..Len(call.decls) : ~Inside(call.decls[i], p[1], p[2]))
            => ~HasEntry(ret.mergedMap, p[1], p[2])

LastCovering(c, r) ==
    CHOOSE i \in 1..Len(call.decls) :
        /\ Inside(call.decls[i], c, r)
        /\ \A j \in (i + 1)..Len(call.decls) : ~Inside(call.decls[j], c, r)

-----------------------------------------------------------------------------
(* Sheet streams and the streamer harness                                   *)

\* Cells of the enumerated sheets.  hasV: the cell has a <v> child.
CellA == [hasR |-> TRUE, R |-> <<"A","1">>, hasT |-> FALSE, T |-> <<>>,
          hasV |-> TRUE, V |-> <<"4","2">>]
CellB == [hasR |-> TRUE, R |-> <<"B","7">>, hasT |-> TRUE, T |-> <<"s">>,
          hasV |-> TRUE, V |-> <<"0">>]
CellN == [hasR |-> FALSE, R |-> <<>>, hasT |-> FALSE, T |-> <<>>,
          hasV |-> FALSE, V |-> <<>>]
CellP == [hasR |-> TRUE, R |-> <<"C","1">>, hasT |-> TRUE, T |-> <<"s">>,
          hasV |-> TRUE, V |-> <<"-","1">>]
CellS == [hasR |-> TRUE, R |-> <<"A","1">>, hasT |-> TRUE, T |-> <<"s">>,
          hasV |-> TRUE, V |-> <<"0">>]
CellM == [hasR |-> TRUE, R |-> <<"B","1">>, hasT |-> TRUE, T |-> <<"n">>,
          hasV |-> TRUE, V |-> <<"4","2">>]

\* The r attribute of a row with the number it denotes written out by hand
\* (n = -1: no number).
RowAttrs ==
    { [hasR |-> TRUE,  r |-> <<"2">>, n |-> 2],
      [hasR |-> TRUE,  r |-> <<"1">>, n |-> 1],
      [hasR |-> TRUE,  r |-> <<"x">>, n |-> -1],
      [hasR |-> FALSE, r |-> <<>>,    n |-> -1] }

RowCells == { <<>>, <<CellA>>, <<CellB, CellN>> }

\* The top-level items of a sheet: rows with their cells, a cell outside any
\* row, and a row whose cell holds a negative shared-string index.
SheetItems ==
    { [row |-> TRUE, attr |-> a, cells |-> cs] : a \in RowAttrs, cs \in RowCells }
    \cup { [row |-> FALSE, attr |-> [hasR |-> FALSE, r |-> <<>>, n |-> -1],
            cells |-> <<CellA>>] }
    \cup { [row |-> TRUE, attr |-> [hasR |-> TRUE, r |-> <<"1">>, n |-> 1],
            cells |-> <<CellP>>] }

\* The most top-level items of one enumerated sheet.
MaxItems == 2

\* How a sheet member ends: complete; cut inside a tag (invalid XML); or the
\* bytes stop inside a further cell, after its value.
StreamEnds == {"complete", "syntaxError", "cutInCell"}

CellTokens(c) ==
    << [k |-> "c", hasR |-> c.hasR, R |-> c.R, hasT |-> c.hasT, T |-> c.T] >>
    \o (IF c.hasV
        THEN << [k |-> "v"] >>
             \o (IF c.V = <<>> THEN <<>> ELSE << [k |-> "chars", text |-> c.V] >>)
             \o << [k |-> "endv"] >>
        ELSE <<>>)
    \o << [k |-> "endc"] >>

RECURSIVE CellsTokens(_)
CellsTokens(cs) ==
    IF cs = <<>> THEN <<>> ELSE CellTokens(Head(cs)) \o CellsTokens(Tail(cs))

ItemTokens(it) ==
    IF it.row
    THEN << [k |-> "row", hasR |-> it.attr.hasR, r |-> it.attr.r, n |-> it.attr.n] >>
         \o CellsTokens(it.cells) \o << [k |-> "endrow"] >>
    ELSE CellsTokens(it.cells)

RECURSIVE ItemsTokens(_)
ItemsTokens(its) ==
    IF its = <<>> THEN <<>> ELSE ItemTokens(Head(its)) \o ItemsTokens(Tail(its))

EndTokens(end) ==
    IF end = "syntaxError" THEN << [k |-> "syntaxError"] >>
    ELSE IF end = "cutInCell"
         THEN << [k |-> "c", hasR |-> TRUE, R |-> <<"D","4">>, hasT |-> FALSE, T |-> <<>>],
                 [k |-> "v"], [k |-> "chars", text |-> <<"9">>],
                 [k |-> "unexpectedEOF"] >>
    ELSE <<>>

\* <sheetData> items </sheetData>, then how the member ends.
SheetTokens(its, end) ==
    << [k |-> "other"] >> \o ItemsTokens(its)
    \o (IF end = "complete" THEN << [k |-> "other"] >> ELSE <<>>)
    \o EndTokens(end)

StreamInputs ==
    { SheetTokens(its, end) : its \in SeqsUpTo(SheetItems, MaxItems), end \in StreamEnds }

StreamerNames == {"ReadSheetData", "ReadSheetDataConc", "ReadSheetDataRaw"}

InitStream ==
    /\ \E fn \in StreamerNames, tokens \in StreamInputs :
          call = [fn |-> fn, tokens |-> tokens, items |-> << <<"H","i">> >>]
    /\ ret = [pc |-> "start"]
    /\ ProgAtRest

StreamReadSheetData ==
    /\ call.fn = "ReadSheetData"
    /\ ret.pc = "start"
    /\ ret' = [pc |-> "read", out |-> ReadSheetData(call.tokens, call.items)]
    /\ UNCHANGED <<call, progVars>>

StreamReadSheetDataConc ==
    /\ call.fn = "ReadSheetDataConc"
    /\ ret.pc = "start"
    /\ ret' = [pc |-> "read", out |-> ReadSheetDataConc(call.tokens, call.items)]
    /\ UNCHANGED <<call, progVars>>

StreamReadSheetDataRaw ==
    /\ call.fn = "ReadSheetDataRaw"
    /\ ret.pc = "start"
    /\ ret' = [pc |-> "read", out |-> ReadSheetDataRaw(call.tokens, call.items)]
    /\ UNCHANGED <<call, progVars>>

NextStream == StreamReadSheetData \/ StreamReadSheetDataConc \/ StreamReadSheetDataRaw

SpecStream == InitStream /\ [][NextStream]_vars

\* The streamer returned records (no error, no panic).
Streamed ==
    /\ call.fn \in StreamerNames /\ ret.pc = "read"
    /\ ~ret.out.err /\ ~ret.out.panic

\* The positions of the closed cell elements of a stream, in document order:
\* the n-th record comes from the n-th of them.
CellStarts(tokens) ==
    {i \in 1..Len(tokens) :
        /\ tokens[i].k = "c"
        /\ \E j \in (i + 1)..Len(tokens) : tokens[j].k = "endc"}

NthCell(tokens, n) ==
    CHOOSE i \in CellStarts(tokens) :
        Cardinality({j \in CellStarts(tokens) : j <= i}) = n

\* The position of the last token of one of the kinds before position i (0:
\* none).
LastBefore(tokens, kinds, i) ==
    IF \E j \in 1..(i - 1) : tokens[j].k \in kinds
    THEN CHOOSE j \in 1..(i - 1) :
            /\ tokens[j].k \in kinds
            /\ \A m \in (j + 1)..(i - 1) : tokens[m].k \notin kinds
    ELSE 0

-----------------------------------------------------------------------------
(* The container and the catalog                                            *)

\* fmt.Sprintf("xl/worksheets/sheet%s.xml", sheetID)
SheetFile(sheetID) == <<"xl/worksheets/sheet">> \o sheetID \o <<".xml">>

\* The index in zipReader.File of the first member of that name (0: none).
FindFile(files, fileName) ==
    IF \E i \in 1..Len(files) : files[i].Name = fileName
    THEN CHOOSE i \in 1..Len(files) :
            /\ files[i].Name = fileName
            /\ \A j \in 1..(i - 1) : files[j].Name # fileName
    ELSE 0

\* ReadMergedCells: no member of that name gives (nil, nil); a member that
\* Decode cannot unmarshal (no root element, or broken XML) gives an error.
ReadMergedCells(files, fileName) ==
    LET i == FindFile(files, fileName)
    IN  IF i = 0 THEN [err |-> FALSE, mergedCells |-> <<>>]
        ELSE IF files[i].tokens = <<>> \/ \E j \in 1..Len(files[i].tokens) : IsBreak(files[i].tokens[j])
             THEN [err |-> TRUE, mergedCells |-> <<>>]
             ELSE [err |-> FALSE, mergedCells |-> MergedCellsOf(files[i].mergeRefs)]

\* ReadSheetData of xlsx_reader.go: no member of that name is an error.
ReadSheetDataFile(files, fileName, items) ==
    LET i == FindFile(files, fileName)
    IN  IF i = 0 THEN Failed ELSE ReadSheetData(files[i].tokens, items)

\* ReadSheetData of the concurrent revision: with no member of that name the
\* loop over the archive ends and the empty cellData is returned with a nil
\* error.
ReadSheetDataConcFile(files, fileName, items) ==
    LET i == FindFile(files, fileName)
    IN  IF i = 0 THEN Read(<<>>) ELSE ReadSheetDataConc(files[i].tokens, items)

\* The record main appends for one streamed cell: the sheet name, and the
\* merged range when the coordinate has an entry in the map.
Annotate(cell, sheetName, mergedMap) ==
    [SheetName    |-> sheetName,
     RowNumber    |-> cell.RowNumber,
     ColumnNumber |-> cell.ColumnNumber,
     SheetValue   |-> cell.SheetValue,
     Merged       |-> HasEntry(mergedMap, cell.ColumnNumber, cell.RowNumber),
     MergedRange  |-> IF HasEntry(mergedMap, cell.ColumnNumber, cell.RowNumber)
                      THEN EntryAt(mergedMap, cell.ColumnNumber, cell.RowNumber)
                      ELSE <<>>]

AnnotateAll(sheetData, sheetName, mergedMap) ==
    [n \in 1..Len(sheetData) |-> Annotate(sheetData[n], sheetName, mergedMap)]

\* The most sheets of an enumerated catalog.
MaxSheets == 2

Row1 == [hasR |-> TRUE, r |-> <<"1">>, n |-> 1]
Row2 == [hasR |-> TRUE, r |-> <<"2">>, n |-> 2]

\* The cells of the long sheet: LongCells numbers in row 1, columns A, B, ...
LongCells == 9

LongRowCells ==
    [j \in 1..LongCells |->
        [hasR |-> TRUE, R |-> <<Letters[j], "1">>, hasT |-> FALSE, T |-> <<>>,
         hasV |-> TRUE, V |-> FormatInt(j)]]

\* The sheet members enumerated, by kind: one cell A1 in a merged range; two
\* cells in row 2; a member cut after its first cell; a member of zero bytes; a
\* member whose cell holds shared-string index -1; ("scenario") row 1 with
\* A1, shared string 0, in the merged range A1:A1 and B1, the number 42; and
\* ("long") row 1 with LongCells numbers.
FileKinds == {"one", "two", "cut", "empty", "negative", "missing"}

FileTokens(kind) ==
    CASE kind = "one" ->
            SheetTokens(<< [row |-> TRUE, attr |-> Row1, cells |-> <<CellA>>] >>, "complete")
      [] kind = "two" ->
            SheetTokens(<< [row |-> TRUE, attr |-> Row2, cells |-> <<CellB, CellN>>] >>, "complete")
      [] kind = "cut" ->
            SheetTokens(<< [row |-> TRUE, attr |-> Row1, cells |-> <<CellA>>] >>, "syntaxError")
      [] kind = "negative" ->
            SheetTokens(<< [row |-> TRUE, attr |-> Row1, cells |-> <<CellP>>] >>, "complete")
      [] kind = "scenario" ->
            SheetTokens(<< [row |-> TRUE, attr |-> Row1, cells |-> <<CellS, CellM>>] >>, "complete")
      [] kind = "long" ->
            SheetTokens(<< [row |-> TRUE, attr |-> Row1, cells |-> LongRowCells] >>, "complete")
      [] OTHER -> <<>>

FileMergeRefs(kind) ==
    IF kind \in {"one", "scenario"} THEN << <<"A","1",":","A","1">> >> ELSE <<>>

\* The catalog of n sheets S1..Sn with identifiers 1..n.
Catalog(n) == [i \in 1..n |-> [Name |-> <<"S">> \o FormatInt(i), ID |-> FormatInt(i)]]

RECURSIVE Container(_, _)
\* The archive holding a member for every sheet whose kind is not "missing".
Container(kinds, i) ==
    IF i > Len(kinds) THEN <<>>
    ELSE (IF kinds[i] = "missing" THEN <<>>
          ELSE << [Name |-> SheetFile(FormatInt(i)), kind |-> kinds[i],
                   tokens |-> FileTokens(kinds[i]),
                   mergeRefs |-> FileMergeRefs(kinds[i])] >>)
         \o Container(kinds, i + 1)

IdleTask == [pc |-> "idle", out |-> <<>>, k |-> 1, seen |-> <<>>]

\* The state once the workbook and the shared strings are loaded and main is
\* about to process the sheets.
Init ==
    /\ call = [fn |-> "main"]
    /\ ret = [pc |-> "start"]
    /\ \E n \in 1..MaxSheets : \E kinds \in [1..n -> FileKinds] :
          /\ workbook = Catalog(n)
          /\ zipFiles = Container(kinds, 1)
          /\ task = [i \in 1..n |-> IdleTask]
    /\ sharedStrings = << <<"H","i">> >>
    /\ data = <<>>
    /\ heap = NilHeap
    /\ wg = 0
    /\ mainPc = "launch"
    /\ sheetIdx = 1
    /\ failures = <<>>
    /\ encoded = <<>>

Sheets == 1..Len(workbook)

-----------------------------------------------------------------------------
(* The concurrent orchestrator: one goroutine per sheet, appending to the   *)
(* shared slice data.  data = append(data, cellData) is a load of the slice *)
(* and a store of the extended slice, with no lock around them, so the two  *)
(* are separate steps; a store that follows another task's store overwrites *)
(* it.                                                                      *)

\* for _, sheet := range workbook.Sheets.Sheet { wg.Add(1); go func(...) }
Launch ==
    /\ mainPc = "launch"
    /\ sheetIdx <= Len(workbook)
    /\ wg' = wg + 1
    /\ task' = [task EXCEPT ![sheetIdx].pc = "ready"]
    /\ sheetIdx' = sheetIdx + 1
    /\ UNCHANGED <<pureVars, heap, zipFiles, workbook, sharedStrings, data, mainPc,
                   failures, encoded>>

\* The launch loop is over: main goes on to wg.Wait().
LaunchDone ==
    /\ mainPc = "launch"
    /\ sheetIdx > Len(workbook)
    /\ mainPc' = "wait"
    /\ UNCHANGED <<pureVars, heap, zipFiles, workbook, sharedStrings, data, wg,
                   sheetIdx, task, failures, encoded>>

SheetDataOf(i) ==
    ReadSheetDataConcFile(zipFiles, SheetFile(workbook[i].ID), sharedStrings)

MergedCellsOfSheet(i) == ReadMergedCells(zipFiles, SheetFile(workbook[i].ID))

\* ReadSheetData returned an error: the failure is printed and the task
\* returns.
TaskReadFails(i) ==
    /\ mainPc \in {"launch", "wait"}
    /\ task[i].pc = "ready"
    /\ SheetDataOf(i).err
    /\ failures' = Append(failures, workbook[i].Name)
    /\ task' = [task EXCEPT ![i].pc = "exit"]
    /\ UNCHANGED <<pureVars, heap, zipFiles, workbook, sharedStrings, data, wg, mainPc,
                   sheetIdx, encoded>>

\* A panic in a goroutine ends the whole program.
TaskPanics(i) ==
    /\ mainPc \in {"launch", "wait"}
    /\ task[i].pc = "ready"
    /\ SheetDataOf(i).panic
    /\ mainPc' = "crashed"
    /\ task' = [task EXCEPT ![i].pc = "panicked"]
    /\ UNCHANGED <<pureVars, heap, zipFiles, workbook, sharedStrings, data, wg,
                   sheetIdx, failures, encoded>>

\* ReadMergedCells returned an error: the failure is printed and the task
\* returns.
TaskMergedFails(i) ==
    /\ mainPc \in {"launch", "wait"}
    /\ task[i].pc = "ready"
    /\ ~SheetDataOf(i).err /\ ~SheetDataOf(i).panic
    /\ MergedCellsOfSheet(i).err
    /\ failures' = Append(failures, workbook[i].Name)
    /\ task' = [task EXCEPT ![i].pc = "exit"]
    /\ UNCHANGED <<pureVars, heap, zipFiles, workbook, sharedStrings, data, wg, mainPc,
                   sheetIdx, encoded>>

\* The sheet is streamed, its merged ranges expanded and its records
\* annotated; the task then appends them one by one.
TaskExtract(i) ==
    /\ mainPc \in {"launch", "wait"}
    /\ task[i].pc = "ready"
    /\ ~SheetDataOf(i).err /\ ~SheetDataOf(i).panic
    /\ ~MergedCellsOfSheet(i).err
    /\ LET out == AnnotateAll(SheetDataOf(i).cellData, workbook[i].Name,
                              PreAllocateMergedCells(MergedCellsOfSheet(i).mergedCells))
       IN  task' = [task EXCEPT ![i].out = out, ![i].k = 1,
                                ![i].pc = IF out = <<>> THEN "exit" ELSE "load"]
    /\ UNCHANGED <<pureVars, heap, zipFiles, workbook, sharedStrings, data, wg, mainPc,
                   sheetIdx, failures, encoded>>

\* An array is kept while data or the slice a task holds refers to it; the
\* others are the garbage collector's, and nothing can read them any more.
Referenced(a, cur, tasks) ==
    \/ a = cur
    \/ \E j \in DOMAIN tasks : tasks[j].seen # <<>> /\ tasks[j].seen.arr = a

Collect(arrays, cur, tasks) ==
    [a \in 1..Len(arrays) |-> IF Referenced(a, cur, tasks) THEN arrays[a] ELSE <<>>]

\* data = append(data, cellData): the header of data is read.
TaskLoadSlice(i) ==
    /\ mainPc \in {"launch", "wait"}
    /\ task[i].pc = "load"
    /\ task' = [task EXCEPT ![i].seen = DataHeader, ![i].pc = "append"]
    /\ UNCHANGED <<pureVars, heap, zipFiles, workbook, sharedStrings, data, wg, mainPc,
                   sheetIdx, failures, encoded>>

\* data = append(data, cellData): append puts the record behind the elements
\* of the slice it was given, in place or in a new array.  A write in place
\* into the array data points to, below len(data), shows in data at once.
TaskAppendElement(i) ==
    /\ mainPc \in {"launch", "wait"}
    /\ task[i].pc = "append"
    /\ LET r == AppendInto(heap.arrays, task[i].seen, << task[i].out[task[i].k] >>)
       IN  /\ task' = [task EXCEPT ![i].seen = [arr |-> r.arr, len |-> r.len],
                                   ![i].pc = "store"]
           /\ heap' = [heap EXCEPT !.arrays = Collect(r.arrays, heap.cur, task')]
           /\ data' = SubSeq(r.arrays[heap.cur], 1, Len(data))
    /\ UNCHANGED <<pureVars, zipFiles, workbook, sharedStrings, wg, mainPc,
                   sheetIdx, failures, encoded>>

\* data = append(data, cellData): the header append returned is written to
\* data, whatever other goroutines have written there meanwhile.
TaskStoreSlice(i) ==
    /\ mainPc \in {"launch", "wait"}
    /\ task[i].pc = "store"
    /\ task' = [task EXCEPT ![i].k = @ + 1, ![i].seen = <<>>,
                            ![i].pc = IF task[i].k = Len(task[i].out)
                                      THEN "exit" ELSE "load"]
    /\ heap' = [cur |-> task[i].seen.arr,
                arrays |-> Collect(heap.arrays, task[i].seen.arr, task')]
    /\ data' = Elements(heap.arrays, task[i].seen)
    /\ UNCHANGED <<pureVars, zipFiles, workbook, sharedStrings, wg, mainPc,
                   sheetIdx, failures, encoded>>

\* defer wg.Done()
TaskDone(i) ==
    /\ mainPc \in {"launch", "wait"}
    /\ task[i].pc = "exit"
    /\ wg' = wg - 1
    /\ task' = [task EXCEPT ![i].pc = "done"]
    /\ UNCHANGED <<pureVars, heap, zipFiles, workbook, sharedStrings, data, mainPc,
                   sheetIdx, failures, encoded>>

\* A wait that returns whatever the counter is.
WaitReturnsAtOnce == TRUE

\* wg.Wait() returns when the counter is zero.
WaitReturns == wg = 0

MainWait ==
    /\ mainPc = "wait"
    /\ WaitReturns
    /\ mainPc' = "encode"
    /\ UNCHANGED <<pureVars, heap, zipFiles, workbook, sharedStrings, data, wg,
                   sheetIdx, task, failures, encoded>>

\* writeCSV / writeJSON / writeParquet (data, targetPath)
MainEncode ==
    /\ mainPc = "encode"
    /\ encoded' = data
    /\ mainPc' = "done"
    /\ UNCHANGED <<pureVars, heap, zipFiles, workbook, sharedStrings, data, wg,
                   sheetIdx, task, failures>>

Next ==
    \/ Launch
    \/ LaunchDone
    \/ \E i \in Sheets : TaskReadFails(i)
    \/ \E i \in Sheets : TaskPanics(i)
    \/ \E i \in Sheets : TaskMergedFails(i)
    \/ \E i \in Sheets : TaskExtract(i)
    \/ \E i \in Sheets : TaskLoadSlice(i)
    \/ \E i \in Sheets : TaskAppendElement(i)
    \/ \E i \in Sheets : TaskStoreSlice(i)
    \/ \E i \in Sheets : TaskDone(i)
    \/ MainWait
    \/ MainEncode

Spec == Init /\ [][Next]_vars

-----------------------------------------------------------------------------
(* The sequential orchestrator of xlsx_reader.go: the same catalog and      *)
(* container, one sheet after the other in main's own loop.                 *)

SeqSheetData == ReadSheetDataFile(zipFiles, SheetFile(workbook[sheetIdx].ID), sharedStrings)

SeqMergedCells == ReadMergedCells(zipFiles, SheetFile(workbook[sheetIdx].ID))

InLoop == mainPc = "launch" /\ sheetIdx <= Len(workbook)

\* The loop stopped at the first failing sheet.
BreakAfterFailure(idx) == Len(workbook) + 1

\* continue: the loop goes on with the next sheet.
ContinueAfterFailure(idx) == idx + 1

\* ReadSheetData returned an error: "Failed to read data for sheet", continue.
SeqReadFails ==
    /\ InLoop
    /\ SeqSheetData.err
    /\ failures' = Append(failures, workbook[sheetIdx].Name)
    /\ sheetIdx' = ContinueAfterFailure(sheetIdx)
    /\ UNCHANGED <<pureVars, heap, zipFiles, workbook, sharedStrings, data, wg, mainPc,
                   task, encoded>>

\* A panic while a sheet is streamed ends the program.
SeqPanics ==
    /\ InLoop
    /\ SeqSheetData.panic
    /\ mainPc' = "crashed"
    /\ UNCHANGED <<pureVars, heap, zipFiles, workbook, sharedStrings, data, wg,
                   sheetIdx, task, failures, encoded>>

\* ReadMergedCells returned an error: "Failed to read merged cells for sheet",
\* continue.
SeqMergedFails ==
    /\ InLoop
    /\ ~SeqSheetData.err /\ ~SeqSheetData.panic
    /\ SeqMergedCells.err
    /\ failures' = Append(failures, workbook[sheetIdx].Name)
    /\ sheetIdx' = ContinueAfterFailure(sheetIdx)
    /\ UNCHANGED <<pureVars, heap, zipFiles, workbook, sharedStrings, data, wg, mainPc,
                   task, encoded>>

\* The sheet is streamed, its merged ranges expanded, and every record is
\* annotated and appended to data.
SeqExtract ==
    /\ InLoop
    /\ ~SeqSheetData.err /\ ~SeqSheetData.panic
    /\ ~SeqMergedCells.err
    /\ LET r == AppendEach(heap.arrays, DataHeader,
                           AnnotateAll(SeqSheetData.cellData, workbook[sheetIdx].Name,
                                       PreAllocateMergedCells(SeqMergedCells.mergedCells)))
       IN  /\ heap' = [arrays |-> r.arrays, cur |-> r.arr]
           /\ data' = Elements(r.arrays, r)
    /\ sheetIdx' = sheetIdx + 1
    /\ UNCHANGED <<pureVars, zipFiles, workbook, sharedStrings, wg, mainPc,
                   task, failures, encoded>>

\* The loop over the catalog is over: main goes on to the encoder.
SeqLoopDone ==
    /\ mainPc = "launch"
    /\ sheetIdx > Len(workbook)
    /\ mainPc' = "encode"
    /\ UNCHANGED <<pureVars, heap, zipFiles, workbook, sharedStrings, data, wg,
                   sheetIdx, task, failures, encoded>>

NextSeq ==
    \/ SeqReadFails
    \/ SeqPanics
    \/ SeqMergedFails
    \/ SeqExtract
    \/ SeqLoopDone
    \/ MainEncode

SpecSeq == Init /\ [][NextSeq]_vars

-----------------------------------------------------------------------------
(* What the enumerated sheets hold, written out by hand                     *)

\* The kind of sheet i's member.
KindOf(i) ==
    LET f == FindFile(zipFiles, SheetFile(workbook[i].ID))
    IN  IF f = 0 THEN "missing" ELSE zipFiles[f].kind

\* The records the extraction of a sheet of that kind produces on its own.
ExpectedRecords(kind, sheetName) ==
    CASE kind = "one" ->
            << [SheetName |-> sheetName, RowNumber |-> 1, ColumnNumber |-> 1,
                SheetValue |-> <<"4","2">>, Merged |-> TRUE,
                MergedRange |-> <<"A","1",":","A","1">>] >>
      [] kind = "two" ->
            << [SheetName |-> sheetName, RowNumber |-> 2, ColumnNumber |-> 2,
                SheetValue |-> <<"H","i">>, Merged |-> FALSE, MergedRange |-> <<>>],
               [SheetName |-> sheetName, RowNumber |-> 2, ColumnNumber |-> 0,
                SheetValue |-> <<>>, Merged |-> FALSE, MergedRange |-> <<>>] >>
      [] OTHER -> <<>>

RECURSIVE ExpectedTotal(_)
\* The sum over sheets 1..i of the number of records each produces on its own.
ExpectedTotal(i) ==
    IF i = 0 THEN 0
    ELSE ExpectedTotal(i - 1) + Len(ExpectedRecords(KindOf(i), workbook[i].Name))

\* The records of the aggregate that carry a sheet's name, in their order.
RecordsOf(agg, sheetName) ==
    SelectSeq(agg, LAMBDA rec : rec.SheetName = sheetName)

Present(i) == KindOf(i) \in {"one", "two"}

-----------------------------------------------------------------------------
(* Claims about the concurrent orchestrator                                 *)

\* C1: after the concurrent orchestrator returns, the number of records in
\* the aggregate equals the sum over sheets of the number of records each
\* sheet's extraction produces on its own, for every interleaving.
C1_CountIsSum ==
    mainPc = "done" => Len(data) = ExpectedTotal(Len(workbook))

\* C2: no reachable state has two tasks between reading and writing the
\* aggregate slice at the same time.
C2_MutualExclusion ==
    \A i \in Sheets : \A j \in Sheets :
        i # j => ~(task[i].pc \in {"append", "store"} /\ task[j].pc \in {"append", "store"})

\* C3: one task per cataloged sheet, all launched before main waits on any,
\* and the aggregate is neither returned nor handed to an encoder until every
\* launched task has completed.
C3_JoinBarrier ==
    /\ Len(task) = Len(workbook)
    /\ mainPc \in {"wait", "encode", "done"} => \A i \in Sheets : task[i].pc # "idle"
    /\ mainPc \in {"encode", "done"} => \A i \in Sheets : task[i].pc = "done"
    /\ encoded # <<>> => \A i \in Sheets : task[i].pc = "done"

\* Two sheets, both tasks completed, the aggregate handed to the encoder.
C3_Witness ==
    /\ mainPc = "done"
    /\ Len(workbook) = 2
    /\ \A i \in Sheets : task[i].pc = "done" /\ Present(i)
    /\ encoded # <<>>

\* C4: if exactly one cataloged sheet's member is missing while the others are
\* present, the aggregate holds all records of the present sheets and none for
\* the missing one, and exactly one failure is reported, for the missing sheet.
C4_PartialFailure ==
    (/\ mainPc = "done"
     /\ Len(workbook) >= 2
     /\ Cardinality({i \in Sheets : KindOf(i) = "missing"}) = 1
     /\ \A i \in Sheets : KindOf(i) # "missing" => Present(i))
    => /\ \A i \in Sheets :
            Len(RecordsOf(data, workbook[i].Name))
                = Len(ExpectedRecords(KindOf(i), workbook[i].Name))
       /\ Len(failures) = 1
       /\ \A i \in Sheets : KindOf(i) = "missing" => failures[1] = workbook[i].Name

-----------------------------------------------------------------------------
(* Claims about the sequential orchestrator                                 *)

\* C5: when a sheet's XML stream is unreadable or truncated, that sheet
\* contributes no records at all (not the records parsed before the error),
\* the error is reported, and the records of every other sheet are exactly
\* what they would be without the failing sheet.
C5_FailureIsolated ==
    mainPc = "done" =>
        \A i \in Sheets :
            /\ KindOf(i) = "cut" =>
                  /\ RecordsOf(data, workbook[i].Name) = <<>>
                  /\ \E f \in 1..Len(failures) : failures[f] = workbook[i].Name
            /\ Present(i) =>
                  RecordsOf(data, workbook[i].Name)
                      = ExpectedRecords(KindOf(i), workbook[i].Name)

\* A sheet cut after its first cell, followed by a sheet of two cells: the
\* aggregate is the second sheet's two records and the first is reported.
C5_Witness ==
    /\ mainPc = "done"
    /\ Len(workbook) = 2
    /\ KindOf(1) = "cut" /\ KindOf(2) = "two"
    /\ failures = << workbook[1].Name >>
    /\ encoded = ExpectedRecords("two", workbook[2].Name)

-----------------------------------------------------------------------------
(* The workbook manifest and the shared-string member.  Their tokens:        *)
(*   "workbook" / "endworkbook", "sheets" / "endsheets", "x" / "endx"        *)
(*   [k |-> "sheet", Name, ID] / "endsheet"      <sheet name=".." sheetId="..">*)
(*   "sst" / "endsst", "si" / "endsi", "t" / "endt", [k |-> "chars", text]   *)
(* and the two kinds of break of the sheet streams.                          *)

WorkbookFile == <<"xl/workbook.xml">>
SharedStringsFile == <<"xl/sharedStrings.xml">>

IsStartElement(tok) == tok.k \in {"workbook", "sheets", "sheet", "x", "sst", "si", "t"}
IsEndElement(tok) ==
    tok.k \in {"endworkbook", "endsheets", "endsheet", "endx", "endsst", "endsi", "endt"}

RECURSIVE SkipElement(_, _, _)
\* decoder.DecodeElement(&v, &se) from token j on, depth elements being open
\* inside se: reads up to the end tag of se; the end of the bytes or invalid
\* XML before that is an error.
SkipElement(tokens, j, depth) ==
    IF j > Len(tokens) \/ IsBreak(tokens[j]) THEN [ok |-> FALSE, next |-> j]
    ELSE IF IsEndElement(tokens[j])
         THEN IF depth = 0 THEN [ok |-> TRUE, next |-> j + 1]
              ELSE SkipElement(tokens, j + 1, depth - 1)
    ELSE IF IsStartElement(tokens[j]) THEN SkipElement(tokens, j + 1, depth + 1)
    ELSE SkipElement(tokens, j + 1, depth)

\* The descriptor decoded from a <sheet> start element.
SheetOf(tok) == [Name |-> tok.Name, ID |-> tok.ID]

\* A loader that takes every sheet element, inside a sheets element or not.
InSheetsIgnored(inSheets) == TRUE

\* se.Name.Local == "sheet" && inSheets
InSheetsRequired(inSheets) == inSheets

RECURSIVE ReadWorkbookTokens(_, _, _, _)
\* The token loop of ReadWorkbook in xlsx_reader.go: any error of Token ends
\* the loop, and what was collected is returned without an error.
ReadWorkbookTokens(tokens, i, inSheets, sheets) ==
    IF i > Len(tokens) \/ IsBreak(tokens[i]) THEN sheets
    ELSE IF tokens[i].k = "sheets"
         THEN ReadWorkbookTokens(tokens, i + 1, TRUE, sheets)
    ELSE IF tokens[i].k = "sheet" /\ InSheetsRequired(inSheets)
         THEN LET d == SkipElement(tokens, i + 1, 0)
              IN  ReadWorkbookTokens(tokens, d.next, inSheets,
                      IF d.ok THEN Append(sheets, SheetOf(tokens[i])) ELSE sheets)
    ELSE IF tokens[i].k = "endsheets"
         THEN ReadWorkbookTokens(tokens, i + 1, FALSE, sheets)
    ELSE ReadWorkbookTokens(tokens, i + 1, inSheets, sheets)

\* ReadWorkbook of xlsx_reader.go: no member xl/workbook.xml is an error.
ReadWorkbook(files) ==
    LET i == FindFile(files, WorkbookFile)
    IN  IF i = 0 THEN [err |-> TRUE, sheets |-> <<>>]
        ELSE [err |-> FALSE,
              sheets |-> ReadWorkbookTokens(files[i].tokens, 1, FALSE, <<>>)]

RECURSIVE DecodeWorkbook(_, _, _, _)
\* decoder.Decode(&workbook): the root element is unmarshalled up to its end
\* tag, the field sheets>sheet taking the sheet children of the sheets
\* children of the root; invalid XML or the end of the bytes before the root
\* is closed is an error.  stack: the elements open at token i.
DecodeWorkbook(tokens, i, stack, sheets) ==
    IF i > Len(tokens) \/ IsBreak(tokens[i]) THEN [err |-> TRUE, sheets |-> <<>>]
    ELSE IF IsStartElement(tokens[i])
         THEN DecodeWorkbook(tokens, i + 1, Append(stack, tokens[i].k),
                  IF tokens[i].k = "sheet" /\ Len(stack) = 2 /\ stack[2] = "sheets"
                  THEN Append(sheets, SheetOf(tokens[i])) ELSE sheets)
    ELSE IF IsEndElement(tokens[i])
         THEN IF Len(stack) = 1 THEN [err |-> FALSE, sheets |-> sheets]
              ELSE DecodeWorkbook(tokens, i + 1, SubSeq(stack, 1, Len(stack) - 1), sheets)
    ELSE DecodeWorkbook(tokens, i + 1, stack, sheets)

\* ReadWorkbook of cell_value.go, through readXMLFromZip.
ReadWorkbookDecode(files) ==
    LET i == FindFile(files, WorkbookFile)
    IN  IF i = 0 THEN [err |-> TRUE, sheets |-> <<>>]
        ELSE DecodeWorkbook(files[i].tokens, 1, <<>>, <<>>)

RECURSIVE DecodeSiFrom(_, _, _, _)
\* decoder.DecodeElement(&text, &se) for an <si> element: text.T is the
\* character data of its <t> child.
DecodeSiFrom(tokens, j, inT, text) ==
    IF j > Len(tokens) \/ IsBreak(tokens[j]) THEN [ok |-> FALSE, text |-> text, next |-> j]
    ELSE IF tokens[j].k = "endsi" THEN [ok |-> TRUE, text |-> text, next |-> j + 1]
    ELSE IF tokens[j].k = "t" THEN DecodeSiFrom(tokens, j + 1, TRUE, text)
    ELSE IF tokens[j].k = "endt" THEN DecodeSiFrom(tokens, j + 1, FALSE, text)
    ELSE IF tokens[j].k = "chars" /\ inT
         THEN DecodeSiFrom(tokens, j + 1, inT, text \o tokens[j].text)
    ELSE DecodeSiFrom(tokens, j + 1, inT, text)

RECURSIVE ReadSharedStringsTokens(_, _, _, _)
\* The token loop of ReadSharedStrings.  strict: an error of Token other than
\* io.EOF is returned (cell_value.go); otherwise every error ends the loop
\* (xlsx_reader.go).
ReadSharedStringsTokens(tokens, i, items, strict) ==
    IF i > Len(tokens) THEN [err |-> FALSE, items |-> items]
    ELSE IF IsBreak(tokens[i])
         THEN IF strict THEN [err |-> TRUE, items |-> <<>>]
              ELSE [err |-> FALSE, items |-> items]
    ELSE IF tokens[i].k = "si"
         THEN LET d == DecodeSiFrom(tokens, i + 1, FALSE, <<>>)
              IN  ReadSharedStringsTokens(tokens, d.next,
                      IF d.ok THEN Append(items, d.text) ELSE items, strict)
    ELSE ReadSharedStringsTokens(tokens, i + 1, items, strict)

\* ReadSharedStrings of xlsx_reader.go (strict = FALSE) and of cell_value.go
\* (strict = TRUE): no member xl/sharedStrings.xml is an error, "shared
\* strings file not found".
ReadSharedStrings(files, strict) ==
    LET i == FindFile(files, SharedStringsFile)
    IN  IF i = 0 THEN [err |-> TRUE, items |-> <<>>]
        ELSE ReadSharedStringsTokens(files[i].tokens, 1, <<>>, strict)

-----------------------------------------------------------------------------
(* The whole run: main opens the archive, loads the catalog and the shared  *)
(* strings and processes the sheets.  call.rev is the revision run:         *)
(* "xlsx_reader" (main of xlsx_reader.go, one sheet after the other) or      *)
(* "cell_value" (the main that calls processSheetsConcurrently of            *)
(* cell_value.go); the two mains are the same up to the sheets.              *)

SheetName(i) == <<"S","h","e","e","t">> \o FormatInt(i)

SheetElement(name, id) == << [k |-> "sheet", Name |-> name, ID |-> id], [k |-> "endsheet"] >>

\* The manifests enumerated: one sheet; a sheet element outside <sheets> and
\* two inside; the same two, the bytes broken inside the second.
ManifestKinds == {"none", "one", "two", "twoCut"}

ManifestTokens(kind) ==
    CASE kind = "one" ->
            << [k |-> "workbook"], [k |-> "sheets"] >>
            \o SheetElement(SheetName(1), FormatInt(1))
            \o << [k |-> "endsheets"], [k |-> "endworkbook"] >>
      [] kind = "two" ->
            << [k |-> "workbook"], [k |-> "x"] >>
            \o SheetElement(SheetName(9), FormatInt(9))
            \o << [k |-> "endx"], [k |-> "sheets"] >>
            \o SheetElement(SheetName(1), FormatInt(1))
            \o SheetElement(SheetName(2), FormatInt(2))
            \o << [k |-> "endsheets"], [k |-> "endworkbook"] >>
      [] kind = "twoCut" ->
            << [k |-> "workbook"], [k |-> "sheets"] >>
            \o SheetElement(SheetName(1), FormatInt(1))
            \o << [k |-> "sheet", Name |-> SheetName(2), ID |-> FormatInt(2)],
                  [k |-> "syntaxError"] >>
      [] OTHER -> <<>>

\* The shared-string members enumerated: the one entry "Hello", complete or
\* followed by broken bytes.
SharedKinds == {"none", "hello", "cut"}

Hello == <<"H","e","l","l","o">>

SharedTokens(kind) ==
    << [k |-> "sst"], [k |-> "si"], [k |-> "t"], [k |-> "chars", text |-> Hello],
       [k |-> "endt"], [k |-> "endsi"] >>
    \o (IF kind = "cut" THEN << [k |-> "syntaxError"] >> ELSE << [k |-> "endsst"] >>)

\* A member of the archive other than a sheet.
Member(name, kind, tokens) ==
    IF kind = "none" THEN <<>>
    ELSE << [Name |-> name, kind |-> kind, tokens |-> tokens, mergeRefs |-> <<>>] >>

Revisions == {"xlsx_reader", "cell_value"}

InitRun ==
    /\ \E rev \in Revisions, archive \in {"ok", "unreadable"},
          m \in ManifestKinds, sk \in SharedKinds,
          k1 \in {"scenario", "cut", "missing", "negative"},
          k2 \in {"two", "missing", "empty"} :
          /\ call = [fn |-> "main", rev |-> rev, archive |-> archive]
          /\ zipFiles = Member(WorkbookFile, m, ManifestTokens(m))
                        \o Member(SharedStringsFile, sk, SharedTokens(sk))
                        \o Container(<<k1, k2>>, 1)
    /\ ret = [pc |-> "start"]
    /\ workbook = <<>>
    /\ sharedStrings = <<>>
    /\ data = <<>>
    /\ heap = NilHeap
    /\ wg = 0
    /\ mainPc = "open"
    /\ sheetIdx = 1
    /\ task = <<>>
    /\ failures = <<>>
    /\ encoded = <<>>

\* r, err := zip.OpenReader(fileName) succeeds.
OpenArchive ==
    /\ mainPc = "open"
    /\ call.archive = "ok"
    /\ mainPc' = "workbook"
    /\ UNCHANGED <<pureVars, heap, zipFiles, workbook, sharedStrings, data, wg,
                   sheetIdx, task, failures, encoded>>

\* "Failed to open file": main returns.
OpenFails ==
    /\ mainPc = "open"
    /\ call.archive # "ok"
    /\ failures' = Append(failures, <<"file">>)
    /\ mainPc' = "aborted"
    /\ UNCHANGED <<pureVars, heap, zipFiles, workbook, sharedStrings, data, wg,
                   sheetIdx, task, encoded>>

WorkbookRead ==
    IF call.rev = "xlsx_reader" THEN ReadWorkbook(zipFiles) ELSE ReadWorkbookDecode(zipFiles)

\* workbook, err := ReadWorkbook(r) with a nil error.
LoadWorkbook ==
    /\ mainPc = "workbook"
    /\ ~WorkbookRead.err
    /\ workbook' = WorkbookRead.sheets
    /\ task' = [i \in 1..Len(WorkbookRead.sheets) |-> IdleTask]
    /\ mainPc' = "sharedStrings"
    /\ UNCHANGED <<pureVars, heap, zipFiles, sharedStrings, data, wg,
                   sheetIdx, failures, encoded>>

\* A main that goes on to the shared strings with the empty catalog.
GoOnAfterWorkbookFailure == "sharedStrings"

\* if err != nil { fmt.Println("Failed to read workbook:", err); return }
AfterWorkbookFailure == "aborted"

\* "Failed to read workbook": main returns.
LoadWorkbookFails ==
    /\ mainPc = "workbook"
    /\ WorkbookRead.err
    /\ failures' = Append(failures, <<"workbook">>)
    /\ mainPc' = AfterWorkbookFailure
    /\ UNCHANGED <<pureVars, heap, zipFiles, workbook, sharedStrings, data, wg,
                   sheetIdx, task, encoded>>

SharedStringsRead == ReadSharedStrings(zipFiles, call.rev = "cell_value")

\* sharedStrings, err := ReadSharedStrings(r) with a nil error; main goes on
\* to the sheets.
LoadSharedStrings ==
    /\ mainPc = "sharedStrings"
    /\ ~SharedStringsRead.err
    /\ sharedStrings' = SharedStringsRead.items
    /\ mainPc' = IF call.rev = "xlsx_reader" THEN "launch" ELSE "spawn"
    /\ UNCHANGED <<pureVars, heap, zipFiles, workbook, data, wg,
                   sheetIdx, task, failures, encoded>>

\* "Failed to read shared strings": main returns.
LoadSharedStringsFails ==
    /\ mainPc = "sharedStrings"
    /\ SharedStringsRead.err
    /\ failures' = Append(failures, <<"shared strings">>)
    /\ mainPc' = "aborted"
    /\ UNCHANGED <<pureVars, heap, zipFiles, workbook, sharedStrings, data, wg,
                   sheetIdx, task, encoded>>

-----------------------------------------------------------------------------
(* processSheetsConcurrently of cell_value.go: one goroutine per sheet; each *)
(* appends what ReadSheetData returned, as it is, to *data in one append.    *)

\* ReadSheetData of cell_value.go: no member of that name is an error.
ReadSheetDataRawFile(files, fileName, items) ==
    LET i == FindFile(files, fileName)
    IN  IF i = 0 THEN Failed ELSE ReadSheetDataRaw(files[i].tokens, items)

BulkSheetData(i) ==
    ReadSheetDataRawFile(zipFiles, SheetFile(workbook[i].ID), sharedStrings)

\* for _, sheet := range workbook.Sheets.Sheet { wg.Add(1); go func(...) }
BulkLaunch ==
    /\ mainPc = "spawn"
    /\ sheetIdx <= Len(workbook)
    /\ wg' = wg + 1
    /\ task' = [task EXCEPT ![sheetIdx].pc = "ready"]
    /\ sheetIdx' = sheetIdx + 1
    /\ UNCHANGED <<pureVars, heap, zipFiles, workbook, sharedStrings, data, mainPc,
                   failures, encoded>>

\* The loop is over: processSheetsConcurrently goes on to wg.Wait().
BulkLaunchDone ==
    /\ mainPc = "spawn"
    /\ sheetIdx > Len(workbook)
    /\ mainPc' = "join"
    /\ UNCHANGED <<pureVars, heap, zipFiles, workbook, sharedStrings, data, wg,
                   sheetIdx, task, failures, encoded>>

\* ReadSheetData returned an error: the failure is printed and the goroutine
\* returns.
BulkReadFails(i) ==
    /\ mainPc \in {"spawn", "join"}
    /\ task[i].pc = "ready"
    /\ BulkSheetData(i).err
    /\ failures' = Append(failures, workbook[i].Name)
    /\ task' = [task EXCEPT ![i].pc = "exit"]
    /\ UNCHANGED <<pureVars, heap, zipFiles, workbook, sharedStrings, data, wg, mainPc,
                   sheetIdx, encoded>>

\* A panic in a goroutine ends the whole program.
BulkPanics(i) ==
    /\ mainPc \in {"spawn", "join"}
    /\ task[i].pc = "ready"
    /\ BulkSheetData(i).panic
    /\ mainPc' = "crashed"
    /\ task' = [task EXCEPT ![i].pc = "panicked"]
    /\ UNCHANGED <<pureVars, heap, zipFiles, workbook, sharedStrings, data, wg,
                   sheetIdx, failures, encoded>>

\* sheetData, err := ReadSheetData(...) with a nil error.
BulkExtract(i) ==
    /\ mainPc \in {"spawn", "join"}
    /\ task[i].pc = "ready"
    /\ ~BulkSheetData(i).err /\ ~BulkSheetData(i).panic
    /\ task' = [task EXCEPT ![i].out = BulkSheetData(i).cellData, ![i].pc = "load"]
    /\ UNCHANGED <<pureVars, heap, zipFiles, workbook, sharedStrings, data, wg, mainPc,
                   sheetIdx, failures, encoded>>

\* *data = append(*data, sheetData...): the header of *data is read.
BulkLoadSlice(i) ==
    /\ mainPc \in {"spawn", "join"}
    /\ task[i].pc = "load"
    /\ task' = [task EXCEPT ![i].seen = DataHeader, ![i].pc = "append"]
    /\ UNCHANGED <<pureVars, heap, zipFiles, workbook, sharedStrings, data, wg, mainPc,
                   sheetIdx, failures, encoded>>

\* *data = append(*data, sheetData...): append puts the records behind the
\* elements of the slice it was given, in place or in a new array.
BulkAppendElements(i) ==
    /\ mainPc \in {"spawn", "join"}
    /\ task[i].pc = "append"
    /\ LET r == AppendInto(heap.arrays, task[i].seen, task[i].out)
       IN  /\ heap' = [heap EXCEPT !.arrays = r.arrays]
           /\ data' = SubSeq(r.arrays[heap.cur], 1, Len(data))
           /\ task' = [task EXCEPT ![i].seen = [arr |-> r.arr, len |-> r.len],
                                   ![i].pc = "store"]
    /\ UNCHANGED <<pureVars, zipFiles, workbook, sharedStrings, wg, mainPc,
                   sheetIdx, failures, encoded>>

\* *data = append(*data, sheetData...): the header append returned is written
\* to *data.
BulkStoreSlice(i) ==
    /\ mainPc \in {"spawn", "join"}
    /\ task[i].pc = "store"
    /\ heap' = [heap EXCEPT !.cur = task[i].seen.arr]
    /\ data' = Elements(heap.arrays, task[i].seen)
    /\ task' = [task EXCEPT ![i].seen = <<>>, ![i].pc = "exit"]
    /\ UNCHANGED <<pureVars, zipFiles, workbook, sharedStrings, wg, mainPc,
                   sheetIdx, failures, encoded>>

\* defer wg.Done()
BulkDone(i) ==
    /\ mainPc \in {"spawn", "join"}
    /\ task[i].pc = "exit"
    /\ wg' = wg - 1
    /\ task' = [task EXCEPT ![i].pc = "done"]
    /\ UNCHANGED <<pureVars, heap, zipFiles, workbook, sharedStrings, data, mainPc,
                   sheetIdx, failures, encoded>>

\* wg.Wait() returns; processSheetsConcurrently returns to main, which goes on
\* to the encoder.
BulkWait ==
    /\ mainPc = "join"
    /\ WaitReturns
    /\ mainPc' = "encode"
    /\ UNCHANGED <<pureVars, heap, zipFiles, workbook, sharedStrings, data, wg,
                   sheetIdx, task, failures, encoded>>

NextRun ==
    \/ OpenArchive
    \/ OpenFails
    \/ LoadWorkbook
    \/ LoadWorkbookFails
    \/ LoadSharedStrings
    \/ LoadSharedStringsFails
    \/ SeqReadFails
    \/ SeqPanics
    \/ SeqMergedFails
    \/ SeqExtract
    \/ SeqLoopDone
    \/ BulkLaunch
    \/ BulkLaunchDone
    \/ \E i \in Sheets : BulkReadFails(i)
    \/ \E i \in Sheets : BulkPanics(i)
    \/ \E i \in Sheets : BulkExtract(i)
    \/ \E i \in Sheets : BulkLoadSlice(i)
    \/ \E i \in Sheets : BulkAppendElements(i)
    \/ \E i \in Sheets : BulkStoreSlice(i)
    \/ \E i \in Sheets : BulkDone(i)
    \/ BulkWait
    \/ MainEncode

SpecRun == InitRun /\ [][NextRun]_vars

-----------------------------------------------------------------------------
(* Claims about the whole run                                               *)

\* The input of the end-to-end scenario as main has loaded it: the catalog
\* [{"Sheet1","1"}], the shared strings ["Hello"], and a sheet1 member with row
\* 1 holding A1 (type s, content "0") and B1 (number, content "42") and the
\* merge declaration "A1:A1".
ScenarioLoaded ==
    /\ workbook = << [Name |-> <<"S","h","e","e","t","1">>, ID |-> <<"1">>] >>
    /\ sharedStrings = << <<"H","e","l","l","o">> >>
    /\ KindOf(1) = "scenario"

ScenarioAggregate ==
    << [SheetName |-> <<"S","h","e","e","t","1">>, RowNumber |-> 1, ColumnNumber |-> 1,
        SheetValue |-> <<"H","e","l","l","o">>, Merged |-> TRUE,
        MergedRange |-> <<"A","1",":","A","1">>],
       [SheetName |-> <<"S","h","e","e","t","1">>, RowNumber |-> 1, ColumnNumber |-> 2,
        SheetValue |-> <<"4","2">>, Merged |-> FALSE, MergedRange |-> <<>>] >>

\* C11: for catalog [{"Sheet1","1"}], shared strings ["Hello"], a sheet1 stream
\* with row 1 holding A1 (type s, content "0") and B1 (number, content "42")
\* and merge declaration "A1:A1", the aggregate is exactly
\* [{Sheet1,1,1,"Hello",merged,"A1:A1"}, {Sheet1,1,2,"42",not merged,""}].
C11_EndToEnd ==
    (ScenarioLoaded /\ mainPc = "done") => encoded = ScenarioAggregate

\* The archive opens and its catalog loads, so that nothing before the shared
\* strings ends the run.
CatalogLoads == call.archive = "ok" /\ ~WorkbookRead.err

\* C12: when the container has no xl/sharedStrings.xml member, the loader
\* returns an empty table without an error and the run proceeds to extract
\* every cataloged sheet.
C12_MissingTableTolerated ==
    (CatalogLoads /\ FindFile(zipFiles, SharedStringsFile) = 0) =>
        /\ mainPc # "aborted"
        /\ \A f \in 1..Len(failures) : failures[f] # <<"shared strings">>
        /\ mainPc \in {"encode", "done"} =>
              (sharedStrings = <<>> /\ sheetIdx > Len(workbook))

CellsOfKind(kind) ==
    CASE kind = "scenario" -> {<<1, 1>>, <<1, 2>>}
      [] kind = "one" -> {<<1, 1>>}
      [] kind = "two" -> {<<2, 2>>, <<2, 0>>}
      [] OTHER -> {}

LabelOfKind(kind, row, column) ==
    IF kind \in {"scenario", "one"} /\ row = 1 /\ column = 1
    THEN <<"A","1",":","A","1">> ELSE <<>>

\* The record was extracted from the member of sheet i.
ExtractedFrom(rec, i) == <<rec.RowNumber, rec.ColumnNumber>> \in CellsOfKind(KindOf(i))

AggregateReturned == mainPc \in {"encode", "done"}

\* C14: every record in the aggregate returned by the orchestrator carries the
\* name of the sheet descriptor whose member it was extracted from; no record
\* has a blank sheet name when its descriptor's name is non-empty.
C14_SheetNames ==
    AggregateReturned =>
        \A n \in 1..Len(data) :
            \E i \in Sheets :
                /\ ExtractedFrom(data[n], i)
                /\ data[n].SheetName = workbook[i].Name

\* C15: for every record in the aggregate, merged is true and the merged-range
\* label is the map's label for (column, row) if that coordinate has an entry
\* in the sheet's coordinate-to-label map; otherwise merged is false and the
\* label is empty.
C15_MergeAnnotation ==
    AggregateReturned =>
        \A n \in 1..Len(data) : \A i \in Sheets :
            ExtractedFrom(data[n], i) =>
                LET label == LabelOfKind(KindOf(i), data[n].RowNumber, data[n].ColumnNumber)
                IN  /\ data[n].Merged = (label # <<>>)
                    /\ data[n].MergedRange = label

-----------------------------------------------------------------------------
(* The concurrent orchestrator on three sheets, the first with LongCells    *)
(* cells: long enough for the array behind data to be extended in place     *)
(* three times in a row.                                                    *)

LongKinds == { <<"long", "one", "one">>, <<"cut", "negative", "empty">> }

InitLong ==
    /\ call = [fn |-> "main"]
    /\ ret = [pc |-> "start"]
    /\ \E kinds \in LongKinds :
          /\ workbook = Catalog(Len(kinds))
          /\ zipFiles = Container(kinds, 1)
          /\ task = [i \in 1..Len(kinds) |-> IdleTask]
    /\ sharedStrings = << <<"H","i">> >>
    /\ data = <<>>
    /\ heap = NilHeap
    /\ wg = 0
    /\ mainPc = "launch"
    /\ sheetIdx = 1
    /\ failures = <<>>
    /\ encoded = <<>>

SpecLong == InitLong /\ [][Next]_vars

\* The place of a record of sheet i in the stream of that sheet.
StreamPosition(rec, i) == CHOOSE n \in 1..Len(task[i].out) : task[i].out[n] = rec

\* C16: in the aggregate handed to the encoders, the records of any one sheet
\* stand in the order their cells occur in that sheet's stream, whatever the
\* interleaving of the per-sheet tasks.
C16_DocumentOrder ==
    AggregateReturned =>
        \A i \in Sheets : \A p, q \in 1..Len(data) :
            (/\ p < q
             /\ \E n \in 1..Len(task[i].out) : task[i].out[n] = data[p]
             /\ \E n \in 1..Len(task[i].out) : task[i].out[n] = data[q])
            => StreamPosition(data[p], i) < StreamPosition(data[q], i)

-----------------------------------------------------------------------------
(* The catalog loaders on enumerated manifests                              *)

\* The parts of an enumerated manifest under the root element: a sheets
\* element with its sheet elements in some order; a sheet element inside
\* another element; a sheet element right under the root; and a sheets
\* element holding a sheet inside <x>, an empty sheets element and a sheet
\* behind it.
ManifestParts ==
    { << [k |-> "sheets"] >> \o SheetElement(SheetName(1), FormatInt(1))
         \o << [k |-> "endsheets"] >>,
      << [k |-> "sheets"] >> \o SheetElement(SheetName(2), FormatInt(2))
         \o SheetElement(SheetName(1), FormatInt(1)) \o << [k |-> "endsheets"] >>,
      << [k |-> "sheets"], [k |-> "endsheets"] >>,
      << [k |-> "x"] >> \o SheetElement(SheetName(9), FormatInt(9)) \o << [k |-> "endx"] >>,
      SheetElement(SheetName(8), FormatInt(8)),
      << [k |-> "sheets"], [k |-> "x"] >> \o SheetElement(SheetName(3), FormatInt(3))
         \o << [k |-> "endx"], [k |-> "sheets"], [k |-> "endsheets"] >>
         \o SheetElement(SheetName(4), FormatInt(4)) \o << [k |-> "endsheets"] >> }

\* The most parts of one enumerated manifest.
MaxParts == 2

\* How a manifest ends: complete; broken right behind its parts; or broken
\* inside a further sheet element of a further sheets element.
ManifestEnds == {"complete", "syntaxError", "cutInSheet"}

RECURSIVE Flatten(_)
Flatten(parts) == IF parts = <<>> THEN <<>> ELSE Head(parts) \o Flatten(Tail(parts))

ManifestOf(parts, end) ==
    << [k |-> "workbook"] >> \o Flatten(parts)
    \o (CASE end = "complete" -> << [k |-> "endworkbook"] >>
          [] end = "syntaxError" -> << [k |-> "syntaxError"] >>
          [] OTHER -> << [k |-> "sheets"],
                         [k |-> "sheet", Name |-> SheetName(5), ID |-> FormatInt(5)],
                         [k |-> "unexpectedEOF"] >>)

ManifestInputs ==
    { ManifestOf(parts, end) : parts \in SeqsUpTo(ManifestParts, MaxParts),
                               end \in ManifestEnds }

CatalogLoaders == {"ReadWorkbook", "ReadWorkbookDecode"}

InitCatalog ==
    /\ \E fn \in CatalogLoaders, tokens \in ManifestInputs :
          call = [fn |-> fn, tokens |-> tokens]
    /\ ret = [pc |-> "start"]
    /\ ProgAtRest

\* The archive whose only member is the manifest.
ManifestArchive(tokens) ==
    << [Name |-> WorkbookFile, kind |-> "manifest", tokens |-> tokens, mergeRefs |-> <<>>] >>

CatalogReadWorkbook ==
    /\ call.fn = "ReadWorkbook"
    /\ ret.pc = "start"
    /\ ret' = [pc |-> "loaded", out |-> ReadWorkbook(ManifestArchive(call.tokens))]
    /\ UNCHANGED <<call, progVars>>

CatalogReadWorkbookDecode ==
    /\ call.fn = "ReadWorkbookDecode"
    /\ ret.pc = "start"
    /\ ret' = [pc |-> "loaded", out |-> ReadWorkbookDecode(ManifestArchive(call.tokens))]
    /\ UNCHANGED <<call, progVars>>

NextCatalog == CatalogReadWorkbook \/ CatalogReadWorkbookDecode

SpecCatalog == InitCatalog /\ [][NextCatalog]_vars

\* The loader returned a catalog.
CatalogLoaded == call.fn \in CatalogLoaders /\ ret.pc = "loaded" /\ ~ret.out.err

\* The positions of the sheet start tokens of the manifest.
SheetPositions(tokens) == {j \in 1..Len(tokens) : tokens[j].k = "sheet"}

\* The number of sheets elements opened minus those closed in tokens s+1..j-1.
SheetsDepth(tokens, s, j) ==
    Cardinality({n \in (s + 1)..(j - 1) : tokens[n].k = "sheets"})
    - Cardinality({n \in (s + 1)..(j - 1) : tokens[n].k = "endsheets"})

\* Token j lies between a sheets start token and its matching end token: some
\* sheets element opened before j is not closed before j.
BetweenSheets(tokens, j) ==
    \E s \in 1..(j - 1) :
        /\ tokens[s].k = "sheets"
        /\ \A e \in (s + 1)..(j - 1) :
              tokens[e].k = "endsheets" => SheetsDepth(tokens, s, e) > 0

RECURSIVE DescriptorsAt(_, _)
\* The descriptors of the sheet elements at the positions J, in the order of
\* the positions.
DescriptorsAt(tokens, J) ==
    IF J = {} THEN <<>>
    ELSE LET j == CHOOSE m \in J : \A n \in J : m <= n
         IN  << SheetOf(tokens[j]) >> \o DescriptorsAt(tokens, J \ {j})

-----------------------------------------------------------------------------
(* Records and value-carrying cells                                         *)

\* The cell element starting at position i has a <v> child.
CarriesValue(tokens, i) ==
    \E j \in (i + 1)..Len(tokens) :
        /\ tokens[j].k = "v"
        /\ \A m \in (i + 1)..(j - 1) : tokens[m].k # "endc"

\* C18: a streamer returns one record for each cell element that carries a
\* value and none for a cell element without a value, so the number of
\* records of a sheet is the number of its value-carrying cells.
C18_OneRecordPerValue ==
    Streamed =>
        Len(ret.out.cellData)
            = Cardinality({i \in CellStarts(call.tokens) : CarriesValue(call.tokens, i)})

-----------------------------------------------------------------------------
(* Coordinates of the records handed to the encoders                        *)

\* C19: every record of the aggregate handed to the encoders has a row and a
\* column of at least 1, whatever the references of the cells and the r
\* attributes of the rows of the input.
C19_PositiveCoordinates ==
    AggregateReturned =>
        \A n \in 1..Len(data) : data[n].RowNumber >= 1 /\ data[n].ColumnNumber >= 1

-----------------------------------------------------------------------------
(* parseCellReference on references that are not a column and a row         *)

\* The longest reference enumerated.
MaxRefLen == 3

\* The characters of the enumerated references: letters, digits, a lower-case
\* letter, and the marks of absolute and range references.
RefChars == {"A", "B", "Z", "0", "1", "2", "a", "$", ":"}

RefInputs == SeqsUpTo(RefChars, MaxRefLen)

InitParse ==
    /\ \E ref \in RefInputs : call = [fn |-> "parseCellReference", ref |-> ref]
    /\ ret = [pc |-> "start"]
    /\ ProgAtRest

\* parseCellReference has no error result and no statement that can panic
\* (ref[i] with i < len(ref), ref[i:], an Atoi whose error is dropped): it
\* returns a pair.
ParseReference ==
    /\ call.fn = "parseCellReference"
    /\ ret.pc = "start"
    /\ ret' = [pc |-> "parsed", err |-> FALSE, panic |-> FALSE,
               col |-> parseCellReference(call.ref).col,
               row |-> parseCellReference(call.ref).row]
    /\ UNCHANGED <<call, progVars>>

NextParse == ParseReference

SpecParse == InitParse /\ [][NextParse]_vars

Parsed == call.fn = "parseCellReference" /\ ret.pc = "parsed"

NoDigits(ref) == ref # <<>> /\ \A i \in 1..Len(ref) : IsUpper(ref[i])
NoLetters(ref) == ref # <<>> /\ \A i \in 1..Len(ref) : IsDigit(ref[i])

RECURSIVE LettersNumber(_)
\* The column a run of letters denotes: the letters before the last one count
\* 26 times, the last one once (A = 1, ..., Z = 26).
LettersNumber(s) ==
    IF s = <<>> THEN 0
    ELSE 26 * LettersNumber(SubSeq(s, 1, Len(s) - 1)) + LetterValue(s[Len(s)])

RECURSIVE DigitsNumber(_)
\* The number a run of decimal digits denotes.
DigitsNumber(s) ==
    IF s = <<>> THEN 0
    ELSE 10 * DigitsNumber(SubSeq(s, 1, Len(s) - 1)) + DigitValue(s[Len(s)])

-----------------------------------------------------------------------------
(* Rows whose r attribute gives no number                                   *)

\* C21: the cells of a row whose r attribute is absent or is no number carry
\* the number of the row-start token before it.
C21_RowFallback ==
    Streamed =>
        \A n \in 1..Len(ret.out.cellData) :
            LET pos  == NthCell(call.tokens, n)
                row  == LastBefore(call.tokens, {"row", "endrow"}, pos)
                prev == LastBefore(call.tokens, {"row"}, row)
            IN  (/\ row > 0 /\ call.tokens[row].k = "row" /\ call.tokens[row].n < 0
                 /\ prev > 0 /\ call.tokens[prev].n >= 0)
                    => ret.out.cellData[n].RowNumber = call.tokens[prev].n

-----------------------------------------------------------------------------
(* The value of a record and the content of its cell                        *)

\* The position of the </c> that closes the cell element starting at i.
CellEnd(tokens, i) ==
    CHOOSE j \in (i + 1)..Len(tokens) :
        tokens[j].k = "endc" /\ \A m \in (i + 1)..(j - 1) : tokens[m].k # "endc"

\* The text of the cell element starting at i: the character data of its <v>
\* child, empty when there is none.
OwnContent(tokens, i) ==
    IF \E j \in (i + 1)..CellEnd(tokens, i) : tokens[j].k = "chars"
    THEN tokens[CHOOSE j \in (i + 1)..CellEnd(tokens, i) : tokens[j].k = "chars"].text
    ELSE <<>>

\* The cell element starting at i has the shared-string marker t="s".
IsSharedCell(tokens, i) == tokens[i].hasT /\ tokens[i].T = <<"s">>

\* C22: the record of a cell whose type is not the shared-string marker has
\* the cell's own text as its value, unchanged.
C22_RawContent ==
    Streamed =>
        \A n \in 1..Len(ret.out.cellData) :
            LET pos == NthCell(call.tokens, n)
            IN  ~IsSharedCell(call.tokens, pos)
                    => ret.out.cellData[n].SheetValue = OwnContent(call.tokens, pos)

-----------------------------------------------------------------------------
(* Member byte streams.  Every loader, the sheet streamers and the           *)
(* merged-range extractor have the same frame: look the member up, f, err := *)
(* file.Open(), return on an error, defer f.Close(), read from f, return.    *)
(* Two such calls run side by side, as two per-sheet tasks do.  ret.streams  *)
(* are the streams opened so far, each with whether it is open, the call     *)
(* that opened it and the calls that read from it; ret.calls[t] is call t:   *)
(* its position, the stream its variable f holds and its deferred closes.    *)

StreamOpeners ==
    {"ReadWorkbook", "ReadSharedStrings", "ReadSheetData", "ReadMergedCells",
     "readXMLFromZip"}

\* The calls that run side by side.
StreamCalls == 1..2

\* The most reads of one call from its stream.
MaxReads == 2

InitStreams ==
    /\ \E fns \in [StreamCalls -> StreamOpeners], found \in [StreamCalls -> BOOLEAN] :
          call = [fn |-> "streams", fns |-> fns, found |-> found]
    /\ ret = [pc |-> "start", streams |-> <<>>,
              calls |-> [t \in StreamCalls |->
                            [pc |-> "lookup", f |-> 0, deferred |-> <<>>, reads |-> 0]]]
    /\ ProgAtRest

\* A frame that registers no close.
NoDefer(f) == <<>>

\* defer f.Close()
DeferClose(f) == <<f>>

\* The streams after the deferred closes of a returning call have run.
RunDeferred(streams, deferred) ==
    [h \in 1..Len(streams) |->
        IF \E n \in 1..Len(deferred) : deferred[n] = h
        THEN [streams[h] EXCEPT !.open = FALSE] ELSE streams[h]]

\* No member of the name: the loop over zipReader.File ends and the function
\* returns (an error, or nil, nil in ReadMergedCells) without a stream.
StreamNotFound(t) ==
    /\ call.fn = "streams"
    /\ ret.calls[t].pc = "lookup" /\ ~call.found[t]
    /\ ret' = [ret EXCEPT !.calls[t].pc = "returned"]
    /\ UNCHANGED <<call, progVars>>

\* f, err := file.Open() fails: return nil, err; no stream was made.
StreamOpenFails(t) ==
    /\ call.fn = "streams"
    /\ ret.calls[t].pc = "lookup" /\ call.found[t]
    /\ ret' = [ret EXCEPT !.calls[t].pc = "returned"]
    /\ UNCHANGED <<call, progVars>>

\* f, err := file.Open() succeeds with a new stream; defer f.Close().
StreamOpen(t) ==
    /\ call.fn = "streams"
    /\ ret.calls[t].pc = "lookup" /\ call.found[t]
    /\ LET f == Len(ret.streams) + 1
       IN  ret' = [ret EXCEPT
                     !.streams = Append(@, [open |-> TRUE, opener |-> t, users |-> {}]),
                     !.calls[t] = [pc |-> "reading", f |-> f,
                                   deferred |-> DeferClose(f), reads |-> 0]]
    /\ UNCHANGED <<call, progVars>>

\* The decoder reads from f and the function goes on.
StreamRead(t) ==
    /\ call.fn = "streams"
    /\ ret.calls[t].pc = "reading" /\ ret.calls[t].reads < MaxReads
    /\ ret' = [ret EXCEPT !.streams[ret.calls[t].f].users = @ \cup {t},
                          !.calls[t].reads = @ + 1]
    /\ UNCHANGED <<call, progVars>>

\* The decoder reads from f and the function leaves: at the end of the
\* stream ("eof"), with the error of the decoder ("error"), or by a panic of
\* the value resolution ("panic").
StreamLeave(t) ==
    /\ call.fn = "streams"
    /\ ret.calls[t].pc = "reading"
    /\ \E how \in {"eof", "error", "panic"} :
          /\ how = "panic" => call.fns[t] = "ReadSheetData"
          /\ ret' = [ret EXCEPT !.streams[ret.calls[t].f].users = @ \cup {t},
                                !.calls[t].pc = how]
    /\ UNCHANGED <<call, progVars>>

\* The function returns, or unwinds by the panic: its deferred calls run.
StreamReturn(t) ==
    /\ call.fn = "streams"
    /\ ret.calls[t].pc \in {"eof", "error", "panic"}
    /\ ret' = [ret EXCEPT !.streams = RunDeferred(@, ret.calls[t].deferred),
                          !.calls[t].pc = IF ret.calls[t].pc = "panic"
                                          THEN "crashed" ELSE "returned",
                          !.calls[t].deferred = <<>>]
    /\ UNCHANGED <<call, progVars>>

NextStreams ==
    \E t \in StreamCalls :
        \/ StreamNotFound(t)
        \/ StreamOpenFails(t)
        \/ StreamOpen(t)
        \/ StreamRead(t)
        \/ StreamLeave(t)
        \/ StreamReturn(t)

SpecStreams == InitStreams /\ [][NextStreams]_vars

\* C23: when a call has returned (or has unwound by a panic), every stream
\* it opened is closed, whichever way it left; and no stream is read by a
\* call other than the one that opened it.
C23_StreamsReleased ==
    call.fn = "streams" =>
        \A h \in 1..Len(ret.streams) :
            /\ ret.calls[ret.streams[h].opener].pc \in {"returned", "crashed"}
                  => ~ret.streams[h].open
            /\ ret.streams[h].users \subseteq {ret.streams[h].opener}

\* C23 witness: both calls opened a stream, read from it and have returned,
\* and both streams are closed.
C23_Witness ==
    /\ call.fn = "streams"
    /\ Len(ret.streams) = 2
    /\ \A h \in 1..2 : ~ret.streams[h].open /\ ret.streams[h].users # {}
    /\ \A t \in StreamCalls : ret.calls[t].pc = "returned"

-----------------------------------------------------------------------------
(* The raw-token streamer and the state it keeps across cells               *)

\* The Cell made of the attributes and the content of the cell element
\* starting at i alone.
OwnCell(tokens, i) ==
    [R |-> IF tokens[i].hasR THEN tokens[i].R ELSE <<>>,
     T |-> IF tokens[i].hasT THEN tokens[i].T ELSE <<>>,
     V |-> OwnContent(tokens, i)]

\* C24: in the raw-token streamer the column and the value of every record
\* are those of its own cell element: a cell without a reference or without a
\* value element takes nothing from the cell emitted before it.
C24_NoInheritance ==
    (Streamed /\ call.fn = "ReadSheetDataRaw") =>
        \A n \in 1..Len(ret.out.cellData) :
            LET own == OwnCell(call.tokens, NthCell(call.tokens, n))
            IN  /\ ret.out.cellData[n].ColumnNumber = parseCellReference(own.R).col
                /\ ret.out.cellData[n].SheetValue = getCellValue(own, call.items).value

-----------------------------------------------------------------------------
(* Shared-string cells whose content is no index                            *)

\* The text is a decimal integer: digits, behind at most one sign.
IsDecimalInteger(v) ==
    LET body == IF v # <<>> /\ Head(v) \in {"+", "-"} THEN Tail(v) ELSE v
    IN  body # <<>> /\ \A i \in 1..Len(body) : IsDigit(body[i])

\* C25: a cell with the shared-string marker whose content is no decimal
\* integer is not resolved to an entry of the table, the one at index 0
\* included: it keeps its own content or the empty value.
C25_NoIndexNoLookup ==
    (Resolved /\ call.cell.T = <<"s">> /\ ~IsDecimalInteger(call.cell.V)) =>
        /\ ~ret.out.panic
        /\ ret.out.value \in {call.cell.V, <<>>}

-----------------------------------------------------------------------------
(* Merge declarations that are no range                                     *)

\* The ref splits at ':' into exactly two parts.
SplitsInTwo(ref) == Cardinality({i \in 1..Len(ref) : ref[i] = ":"}) = 1

\* C26: merge declarations whose ref does not split into exactly two parts
\* at ':' add no entry to the map, and a record at the fallback coordinate
\* (0, 0) is not marked merged because of them.
C26_NoEntryForBadRef ==
    (Expanded /\ \A i \in 1..Len(call.decls) : ~SplitsInTwo(call.decls[i].ref)) =>
        /\ DOMAIN ret.mergedMap = {}
        /\ ~Annotate(CellRecord(0, 0, <<>>), <<>>, ret.mergedMap).Merged

-----------------------------------------------------------------------------
(* The two orchestrators on one container                                   *)

RECURSIVE SequentialFrom(_, _)
\* The sheet loop of main in xlsx_reader.go from sheet i on, acc being the
\* aggregate so far: a sheet whose data or merged cells cannot be read is
\* skipped, a panic ends the program.
SequentialFrom(i, acc) ==
    IF i > Len(workbook) THEN [panic |-> FALSE, data |-> acc]
    ELSE LET sheetFile   == SheetFile(workbook[i].ID)
             sheetData   == ReadSheetDataFile(zipFiles, sheetFile, sharedStrings)
             mergedCells == ReadMergedCells(zipFiles, sheetFile)
         IN  IF sheetData.panic THEN [panic |-> TRUE, data |-> <<>>]
             ELSE IF sheetData.err \/ mergedCells.err THEN SequentialFrom(i + 1, acc)
             ELSE SequentialFrom(i + 1,
                      acc \o AnnotateAll(sheetData.cellData, workbook[i].Name,
                                 PreAllocateMergedCells(mergedCells.mergedCells)))

\* The aggregate the sequential orchestrator produces for the container.
SequentialAggregate == SequentialFrom(1, <<>>)

\* How often a record occurs in an aggregate.
Occurrences(agg, rec) == Cardinality({n \in 1..Len(agg) : agg[n] = rec})

\* C27: the aggregate of the concurrent orchestrator holds the same records,
\* each as often, as the aggregate of the sequential orchestrator for the same
\* container and shared-string table.
C27_SameMultiset ==
    (AggregateReturned /\ ~SequentialAggregate.panic) =>
        /\ Len(data) = Len(SequentialAggregate.data)
        /\ \A n \in 1..Len(data) :
              Occurrences(data, data[n]) = Occurrences(SequentialAggregate.data, data[n])

-----------------------------------------------------------------------------
(* Loaders on a broken member                                               *)

\* C28: when the token stream of the manifest ends with an error other than
\* the end of the stream (broken or cut XML), the loader returns an error and
\* not a shortened catalog.
C28_BrokenManifestIsError ==
    (/\ call.fn \in CatalogLoaders /\ ret.pc = "loaded"
     /\ \E j \in 1..Len(call.tokens) : IsBreak(call.tokens[j]))
        => ret.out.err

-----------------------------------------------------------------------------
(* The wait counter and the end of the wait                                 *)

\* The wait counter is the number of tasks launched and not yet done: it was
\* incremented before each task started, is decremented once by each task
\* that leaves, and is never negative.
CounterDiscipline ==
    /\ wg >= 0
    /\ wg = Cardinality({i \in Sheets : task[i].pc \notin {"idle", "done"}})
    /\ \A i \in Sheets : task[i].pc # "idle" => i < sheetIdx

\* C29: every task signals its completion exactly once whichever way it
\* leaves, the counter is incremented before the task starts and is never
\* negative, and the wait of the orchestrator returns in the end: as long as
\* it has not returned, some step of main or of a task is possible.
C29_WaitReturns ==
    /\ CounterDiscipline
    /\ mainPc \notin {"encode", "done"} => ENABLED Next

-----------------------------------------------------------------------------
(* parseCellReference on long references                                    *)

\* The longest run of column letters enumerated.
MaxLetters == 7

LetterRuns == SeqsUpTo({"A", "G", "Z"}, MaxLetters) \ {<<>>}

\* The row parts enumerated (at most nine digits, see ToInt32).
DigitRuns == { <<"1">>, <<"1","2">>, <<"1","0","4","8","5","7","6">> }

InitWide ==
    /\ \E letters \in LetterRuns, digits \in DigitRuns :
          call = [fn |-> "parseCellReference", ref |-> letters \o digits,
                  letters |-> letters, digits |-> digits]
    /\ ret = [pc |-> "start"]
    /\ ProgAtRest

SpecWide == InitWide /\ [][NextParse]_vars

RECURSIVE ExactColumnFrom(_, _)
\* The column a run of letters denotes as a number (A = 1, ..., Z = 26, AA =
\* 27, ...), computed without leaving the 32-bit range: fits says whether
\* the number is at most 2^31 - 1.
ExactColumnFrom(s, acc) ==
    IF s = <<>> THEN [fits |-> TRUE, val |-> acc]
    ELSE IF acc > (2147483647 - LetterValue(Head(s))) \div 26
         THEN [fits |-> FALSE, val |-> 0]
         ELSE ExactColumnFrom(Tail(s), acc * 26 + LetterValue(Head(s)))

\* C30: for a run of uppercase letters followed by decimal digits the column
\* returned is the number the letters denote and the row the number the
\* digits denote, computed without wraparound, and neither is negative.
C30_NoWraparound ==
    (Parsed /\ "letters" \in DOMAIN call) =>
        /\ ret.col >= 0 /\ ret.row >= 0
        /\ ExactColumnFrom(call.letters, 0).fits
        /\ ret.col = ExactColumnFrom(call.letters, 0).val
        /\ ret.row = DigitsNumber(call.digits)

====
